---------------------------- MODULE Spec2Model ----------------------------
(***************************************************************************)
(* Permission-request relay: the request store (MemoryStore and KVStore),  *)
(* the notify, status and Lark callback handlers, the Lark card gateway    *)
(* and the clock, as a state machine.                                      *)
(*                                                                         *)
(* Times are epoch milliseconds.  An optional value (undefined / null in   *)
(* the source) is a set with at most one element: {} or {v}.               *)
(***************************************************************************)
EXTENDS Integers, Sequences, FiniteSets, TLC

VARIABLES
    backend,   \* which store getStore() hands out: "memory" or "kv"
    now,       \* Date.now()
    store,     \* MemoryStore.store: requestId -> StoredRequest
    timers,    \* MemoryStore.timers: requestId -> instant the timeout is due
    kv,        \* the Redis keyspace behind KVStore: requestId -> [value, expireAt]
    card,      \* the Lark card of each request, as the gateway last rendered it
    issued,    \* request ids already generated (randomUUID never repeats)
    proc,      \* the invocations in flight, one per slot
    history,   \* what has been answered so far, per request
    notices,   \* auxiliary cards POST /api/message has put in the chat
    agent,     \* where the agent's hook script stands
    handshake  \* the last url_verification event and the answer it was given

vars == <<backend, now, store, timers, kv, card, issued, proc, history,
          notices, agent, handshake>>

----------------------------------------------------------------------------
(* Bounds of the model *)

NumProcs == 2          \* invocation slots that may be in flight together
MaxFineTicks == 2      \* instants FineStep apart within a window
MaxGraceJumps == 1     \* windows, one retention period apart
MaxNotices == 1        \* auxiliary cards counted in the chat

(* Program constants *)

MsPerSecond == 1000
MinTtlSeconds == 1
DecisionTtlSeconds == 60
ExpiredTtlSeconds == 60

(* Parameters of the model *)

\* LARK_TIMEOUT set to half a second, so that the deadline falls inside the
\* one-second granularity of a Redis expiry
ShortTimeout == MsPerSecond \div 2
FineStep == ShortTimeout
RequestIds == {"r1"}
Operators == {"ou_approver"}
Procs == 1..NumProcs
Timeouts == {ShortTimeout}
TimePoints ==
    {f * FineStep + g * (DecisionTtlSeconds * MsPerSecond) :
        f \in 0..MaxFineTicks, g \in 0..MaxGraceJumps}

Decisions == {"approve", "deny", "message"}
Terminal == {"approved", "denied", "message", "expired"}
Decided == {"approved", "denied", "message"}

None == {}
Some(v) == {v}
The(o) == CHOOSE v \in o : TRUE

Max(a, b) == IF a >= b THEN a ELSE b
\* Math.ceil(a / b) for b > 0
Ceil(a, b) == -((-a) \div b)

Put(f, k, v) == [i \in DOMAIN f \cup {k} |-> IF i = k THEN v ELSE f[i]]
Drop(f, k) == [i \in DOMAIN f \ {k} |-> f[i]]

----------------------------------------------------------------------------
(* MemoryStore *)

\* status written by MemoryStore.setDecision for a decision kind
MemoryStatusOf(decision) ==
    IF decision = "approve" THEN "approved"
    ELSE IF decision = "message" THEN "message"
    ELSE "denied"

DecisionResponse(requestId, decision, message, respondedAt, respondedBy) ==
    [requestId |-> requestId, decision |-> decision, message |-> message,
     respondedAt |-> respondedAt, respondedBy |-> respondedBy]

\* a set that arms no timer
MemorySetNoTimer(st, tm, requestId, data, t) ==
    [store |-> Put(st, requestId, data), timers |-> Drop(tm, requestId)]

\* MemoryStore.set: replace the entry; arm the timer only when ttlMs > 0
MemorySet(st, tm, requestId, data, t) ==
    LET ttlMs == data.request.expiresAt - t
    IN  [store  |-> Put(st, requestId, data),
         timers |-> IF ttlMs > 0 THEN Put(tm, requestId, t + ttlMs)
                    ELSE Drop(tm, requestId)]

\* a get that flips a pending entry to expired without looking at the clock
MemoryGetEager(st, requestId, t) ==
    IF requestId \notin DOMAIN st THEN [store |-> st, ret |-> None]
    ELSE LET stored == st[requestId]
             flipped == [stored EXCEPT !.status = "expired"]
         IN  IF stored.status = "pending"
             THEN [store |-> Put(st, requestId, flipped), ret |-> Some(flipped)]
             ELSE [store |-> st, ret |-> Some(stored)]

\* MemoryStore.get: lazily flips a pending, timed-out entry to expired
MemoryGet(st, requestId, t) ==
    IF requestId \notin DOMAIN st THEN [store |-> st, ret |-> None]
    ELSE LET stored == st[requestId]
             flipped == [stored EXCEPT !.status = "expired"]
         IN  IF stored.status = "pending" /\ t >= stored.request.expiresAt
             THEN [store |-> Put(st, requestId, flipped), ret |-> Some(flipped)]
             ELSE [store |-> st, ret |-> Some(stored)]

\* setDecision without its status check: what the refusal of a second
\* decision rests on
MemorySetDecisionUnchecked(st, tm, requestId, decision, respondedBy, message, t) ==
    IF requestId \notin DOMAIN st THEN [store |-> st, timers |-> tm, ret |-> FALSE]
    ELSE [store |-> Put(st, requestId,
                [st[requestId] EXCEPT
                    !.status = MemoryStatusOf(decision),
                    !.decision = Some(DecisionResponse(
                        requestId, decision, message, t, respondedBy))]),
          timers |-> Drop(tm, requestId),
          ret |-> TRUE]

MemorySetDecision(st, tm, requestId, decision, respondedBy, message, t) ==
    IF requestId \notin DOMAIN st THEN [store |-> st, timers |-> tm, ret |-> FALSE]
    ELSE LET stored == st[requestId]
         IN  IF stored.status # "pending"
             THEN [store |-> st, timers |-> tm, ret |-> FALSE]
             ELSE IF t >= stored.request.expiresAt
             THEN [store |-> Put(st, requestId, [stored EXCEPT !.status = "expired"]),
                   timers |-> tm, ret |-> FALSE]
             ELSE [store |-> Put(st, requestId,
                        [stored EXCEPT
                            !.status = MemoryStatusOf(decision),
                            !.decision = Some(DecisionResponse(
                                requestId, decision, message, t, respondedBy))]),
                   timers |-> Drop(tm, requestId),
                   ret |-> TRUE]

\* setExpired without its status check: what the guarantee of a settled
\* record rests on
MemorySetExpiredUnchecked(st, tm, requestId) ==
    IF requestId \notin DOMAIN st THEN [store |-> st, timers |-> tm, ret |-> FALSE]
    ELSE [store |-> Put(st, requestId, [st[requestId] EXCEPT !.status = "expired"]),
          timers |-> Drop(tm, requestId),
          ret |-> TRUE]

MemorySetExpired(st, tm, requestId) ==
    IF requestId \notin DOMAIN st THEN [store |-> st, timers |-> tm, ret |-> FALSE]
    ELSE LET stored == st[requestId]
         IN  IF stored.status # "pending"
             THEN [store |-> st, timers |-> tm, ret |-> FALSE]
             ELSE [store |-> Put(st, requestId, [stored EXCEPT !.status = "expired"]),
                   timers |-> Drop(tm, requestId),
                   ret |-> TRUE]

MemoryDelete(st, tm, requestId) ==
    [store |-> Drop(st, requestId), timers |-> Drop(tm, requestId)]

\* MemoryStore.handleExpiration, the timer's callback
HandleExpiration(st, tm, requestId) ==
    [store  |-> IF requestId \in DOMAIN st /\ st[requestId].status = "pending"
                THEN Put(st, requestId, [st[requestId] EXCEPT !.status = "expired"])
                ELSE st,
     timers |-> Drop(tm, requestId)]

----------------------------------------------------------------------------
(* KVStore: every method is a Redis GET and/or a Redis SET with an expiry; *)
(* the two commands of setDecision and setExpired are separate steps.      *)

KVEntry(data, ttlSeconds, t) ==
    [value |-> data, expireAt |-> t + ttlSeconds * MsPerSecond]

\* a set whose expiry is the remaining time rounded down to a second
KVSetRoundedDown(k, requestId, data, t) ==
    LET ttlMs == data.request.expiresAt - t
        ttlSeconds == Max(MinTtlSeconds, ttlMs \div MsPerSecond)
    IN  Put(k, requestId, KVEntry(data, ttlSeconds, t))

\* KVStore.set
KVSet(k, requestId, data, t) ==
    LET ttlMs == data.request.expiresAt - t
        ttlSeconds == Max(MinTtlSeconds, Ceil(ttlMs, MsPerSecond))
    IN  Put(k, requestId, KVEntry(data, ttlSeconds, t))

\* KVStore.get: the raw value, or null
KVGet(k, requestId) ==
    IF requestId \in DOMAIN k THEN Some(k[requestId].value) ELSE None

\* status written by KVStore.setDecision for a decision kind
KVStatusOf(decision) == IF decision = "approve" THEN "approved" ELSE "denied"

\* a setDecision that writes the status and leaves the decision field empty
KVSetDecisionUnstamped(k, requestId, read, decision, respondedBy, t) ==
    IF read = None THEN [kv |-> k, ret |-> FALSE]
    ELSE LET stored == The(read)
         IN  IF stored.status # "pending" THEN [kv |-> k, ret |-> FALSE]
             ELSE [kv |-> Put(k, requestId,
                        KVEntry([stored EXCEPT !.status = KVStatusOf(decision)],
                                DecisionTtlSeconds, t)),
                   ret |-> TRUE]

\* KVStore.setDecision after its get: `read` is what the get returned
KVSetDecision(k, requestId, read, decision, respondedBy, t) ==
    IF read = None THEN [kv |-> k, ret |-> FALSE]
    ELSE LET stored == The(read)
         IN  IF stored.status # "pending" THEN [kv |-> k, ret |-> FALSE]
             ELSE LET updated == [stored EXCEPT
                          !.status = KVStatusOf(decision),
                          !.decision = Some(DecisionResponse(
                              requestId, decision, None, t, respondedBy))]
                      ttlMs == stored.request.expiresAt - t
                      ttlSeconds == Max(DecisionTtlSeconds, Ceil(ttlMs, MsPerSecond))
                  IN  [kv |-> Put(k, requestId, KVEntry(updated, ttlSeconds, t)),
                       ret |-> TRUE]

\* a setExpired that moves the deadline to the instant of the call
KVSetExpiredRestamped(k, requestId, read, t) ==
    IF read = None THEN [kv |-> k, ret |-> FALSE]
    ELSE LET stored == The(read)
         IN  IF stored.status # "pending" THEN [kv |-> k, ret |-> FALSE]
             ELSE [kv |-> Put(k, requestId,
                        KVEntry([stored EXCEPT !.status = "expired",
                                               !.request.expiresAt = t],
                                ExpiredTtlSeconds, t)),
                   ret |-> TRUE]

\* KVStore.setExpired after its get
KVSetExpired(k, requestId, read, t) ==
    IF read = None THEN [kv |-> k, ret |-> FALSE]
    ELSE LET stored == The(read)
         IN  IF stored.status # "pending" THEN [kv |-> k, ret |-> FALSE]
             ELSE [kv |-> Put(k, requestId,
                        KVEntry([stored EXCEPT !.status = "expired"],
                                ExpiredTtlSeconds, t)),
                   ret |-> TRUE]

KVDelete(k, requestId) == Drop(k, requestId)

\* Redis drops a key once its expiry instant is reached
KVEvict(k, t) == [i \in {j \in DOMAIN k : k[j].expireAt > t} |-> k[i]]

----------------------------------------------------------------------------
(* The body of POST /api/notify and the risk classification.  A text is a  *)
(* sequence of characters; a regular expression is a sequence of atoms: a   *)
(* character (matched without regard to case), \s+, \s*, .* or an optional  *)
(* group of characters.                                                     *)

Lit(chars) == [j \in 1..Len(chars) |-> [k |-> "lit", c |-> <<chars[j]>>]]
Opt(chars) == << [k |-> "opt", c |-> chars] >>
WsPlus == << [k |-> "ws+", c |-> << >>] >>
WsStar == << [k |-> "ws*", c |-> << >>] >>
AnyStar == << [k |-> "any*", c |-> << >>] >>

\* the i flag, for the capital letters the commands below use
Lower(c) ==
    CASE c = "D" -> "d" [] c = "O" -> "o" [] c = "C" -> "c" [] c = "K" -> "k"
      [] c = "E" -> "e" [] c = "R" -> "r" [] c = "M" -> "m" [] c = "F" -> "f"
      [] OTHER -> c

IsSpace(c) == c \in {" ", "\t", "\n"}

\* whether the expression matches a prefix of the text
RECURSIVE MatchHere(_, _)
MatchHere(pattern, text) ==
    IF pattern = << >> THEN TRUE
    ELSE LET a == Head(pattern)
             rest == Tail(pattern)
         IN  CASE a.k = "lit" ->
                    /\ text # << >>
                    /\ Lower(Head(text)) = Lower(a.c[1])
                    /\ MatchHere(rest, Tail(text))
               [] a.k = "ws+" ->
                    /\ text # << >>
                    /\ IsSpace(Head(text))
                    /\ (MatchHere(rest, Tail(text)) \/ MatchHere(pattern, Tail(text)))
               [] a.k = "ws*" ->
                    \/ MatchHere(rest, text)
                    \/ text # << >> /\ IsSpace(Head(text)) /\ MatchHere(pattern, Tail(text))
               [] a.k = "any*" ->
                    \/ MatchHere(rest, text)
                    \/ text # << >> /\ Head(text) # "\n" /\ MatchHere(pattern, Tail(text))
               [] a.k = "opt" ->
                    \/ MatchHere(rest, text)
                    \/ MatchHere(Lit(a.c) \o rest, text)

\* RegExp.prototype.test: the expression matches somewhere in the text
Test(pattern, text) ==
    \E j \in 1..(Len(text) + 1) : MatchHere(pattern, SubSeq(text, j, Len(text)))

DangerousPatterns ==
    << Lit(<<"r", "m">>) \o WsPlus \o Lit(<<"-", "r", "f">>),
       Lit(<<"r", "m">>) \o WsPlus \o AnyStar \o Lit(<<"-", "f">>),
       Lit(<<"r", "m", "d", "i", "r">>),
       Lit(<<"f", "o", "r", "m", "a", "t">>),
       Lit(<<"m", "k", "f", "s">>),
       Lit(<<"d", "d">>) \o WsPlus \o Lit(<<"i", "f", "=">>),
       Lit(<<">">>) \o WsStar \o Lit(<<"/", "d", "e", "v">>),
       Lit(<<"c", "h", "m", "o", "d">>) \o WsPlus \o Lit(<<"7", "7", "7">>),
       Lit(<<"c", "u", "r", "l">>) \o AnyStar \o Lit(<<"|">>) \o WsStar \o Opt(<<"b", "a">>) \o Lit(<<"s", "h">>),
       Lit(<<"w", "g", "e", "t">>) \o AnyStar \o Lit(<<"|">>) \o WsStar \o Opt(<<"b", "a">>) \o Lit(<<"s", "h">>) >>

HighRiskPatterns ==
    << Lit(<<"g", "i", "t">>) \o WsPlus \o Lit(<<"p", "u", "s", "h">>) \o AnyStar \o Lit(<<"-", "f">>),
       Lit(<<"g", "i", "t">>) \o WsPlus \o Lit(<<"r", "e", "s", "e", "t">>) \o AnyStar \o Lit(<<"-", "-", "h", "a", "r", "d">>),
       Lit(<<"n", "p", "m">>) \o WsPlus \o Lit(<<"p", "u", "b", "l", "i", "s", "h">>),
       Lit(<<"d", "o", "c", "k", "e", "r">>) \o WsPlus \o Lit(<<"r", "m">>),
       Lit(<<"k", "u", "b", "e", "c", "t", "l">>) \o WsPlus \o Lit(<<"d", "e", "l", "e", "t", "e">>),
       Lit(<<"d", "r", "o", "p">>) \o WsPlus \o Lit(<<"d", "a", "t", "a", "b", "a", "s", "e">>),
       Lit(<<"t", "r", "u", "n", "c", "a", "t", "e">>) \o WsPlus \o Lit(<<"t", "a", "b", "l", "e">>) >>

MediumRiskPatterns ==
    << Lit(<<"n", "p", "m">>) \o WsPlus \o Lit(<<"i", "n", "s", "t", "a", "l", "l">>),
       Lit(<<"p", "i", "p">>) \o WsPlus \o Lit(<<"i", "n", "s", "t", "a", "l", "l">>),
       Lit(<<"g", "i", "t">>) \o WsPlus \o Lit(<<"c", "h", "e", "c", "k", "o", "u", "t">>),
       Lit(<<"g", "i", "t">>) \o WsPlus \o Lit(<<"m", "e", "r", "g", "e">>),
       Lit(<<"d", "o", "c", "k", "e", "r">>) \o WsPlus \o Lit(<<"r", "u", "n">>),
       Lit(<<"k", "u", "b", "e", "c", "t", "l">>) \o WsPlus \o Lit(<<"a", "p", "p", "l", "y">>) >>

\* for (const pattern of patterns) if (pattern.test(cmdStr)) return ...
AnyMatch(patterns, cmdStr) ==
    \E j \in 1..Len(patterns) : Test(patterns[j], cmdStr)

\* command || ''
CmdStr(command) == IF command = None THEN << >> ELSE The(command)

\* a classification that looks at the medium patterns first
DetermineRiskLevelMediumFirst(tool, command) ==
    LET cmdStr == CmdStr(command)
    IN  IF AnyMatch(MediumRiskPatterns, cmdStr) THEN "medium"
        ELSE IF AnyMatch(DangerousPatterns, cmdStr) THEN "critical"
        ELSE IF AnyMatch(HighRiskPatterns, cmdStr) THEN "high"
        ELSE IF tool = "Bash" THEN "medium"
        ELSE "low"

\* a classification without the floor for the shell tool
DetermineRiskLevelNoFloor(tool, command) ==
    LET cmdStr == CmdStr(command)
    IN  IF AnyMatch(DangerousPatterns, cmdStr) THEN "critical"
        ELSE IF AnyMatch(HighRiskPatterns, cmdStr) THEN "high"
        ELSE IF AnyMatch(MediumRiskPatterns, cmdStr) THEN "medium"
        ELSE "low"

DetermineRiskLevel(tool, command) ==
    LET cmdStr == CmdStr(command)
    IN  IF AnyMatch(DangerousPatterns, cmdStr) THEN "critical"
        ELSE IF AnyMatch(HighRiskPatterns, cmdStr) THEN "high"
        ELSE IF AnyMatch(MediumRiskPatterns, cmdStr) THEN "medium"
        ELSE IF tool = "Bash" THEN "medium"
        ELSE "low"

Commands ==
    {<<"l", "s">>,
     <<"r", "m", " ", "-", "r", "f", " ", "/">>,
     <<"D", "O", "C", "K", "E", "R", " ", "R", "M", " ", "-", "F", " ", "x">>,
     <<"n", "p", "m", " ", "p", "u", "b", "l", "i", "s", "h", ";", "n", "p", "m", " ", "i", "n", "s", "t", "a", "l", "l">>,
     <<"p", "i", "p", " ", "i", "n", "s", "t", "a", "l", "l", " ", "x">>,
     <<"c", "u", "r", "l", " ", "x", "|", "b", "a", "s", "h">>,
     <<"g", "i", "t", " ", "m", "e", "r", "g", "e", ";", "g", "i", "t", " ", "p", "u", "s", "h", " ", "-", "f">>}

\* the bodies a caller may post: with both required fields and any command,
\* or with a required field missing
Bodies ==
    [tool : {Some("Bash"), Some("Read")},
     command : {None} \cup {Some(c) : c \in Commands},
     workingDirectory : {Some(<<"/", "w">>)},
     riskLevel : {None, Some("low")},
     description : {None}, args : {None}, project : {None}]
    \cup ([tool : {None, Some("Bash")}, command : {None, Some(<<"l", "s">>)},
           workingDirectory : {None, Some(<<"/", "w">>)}, riskLevel : {None},
           description : {None}, args : {None}, project : {None}]
          \ [tool : {Some("Bash")}, command : {None, Some(<<"l", "s">>)},
             workingDirectory : {Some(<<"/", "w">>)}, riskLevel : {None},
             description : {None}, args : {None}, project : {None}])

\* the body the hook script and the store's tests use
PlainBody ==
    [tool |-> Some("Bash"), command |-> None,
     workingDirectory |-> Some(<<"/", "w">>), riskLevel |-> None,
     description |-> None, args |-> None, project |-> None]

\* bodies with the optional fields a caller may add, and working directories
\* with one segment, with two, and with a trailing slash
DescribedBodies ==
    [tool : {Some("Bash")},
     command : {None, Some(<<"l", "s">>)},
     workingDirectory : {Some(<<"/", "w">>), Some(<<"/", "a", "/", "w">>),
                         Some(<<"/", "w", "/">>)},
     riskLevel : {None},
     description : {None, Some(<<"d">>)},
     args : {None, Some([file |-> "f"])},
     project : {None, Some(<<"p">>)}]

\* text.split('/').pop(): the characters after the last slash
RECURSIVE LastSegment(_)
LastSegment(text) ==
    IF text = << >> \/ text[Len(text)] = "/" THEN << >>
    ELSE Append(LastSegment(SubSeq(text, 1, Len(text) - 1)), text[Len(text)])

\* body.project || body.workingDirectory.split('/').pop() || 'Unknown'
ProjectOf(body) ==
    IF body.project # None /\ The(body.project) # << >> THEN The(body.project)
    ELSE IF LastSegment(The(body.workingDirectory)) # << >>
    THEN LastSegment(The(body.workingDirectory))
    ELSE <<"U", "n", "k", "n", "o", "w", "n">>

\* body.riskLevel || determineRiskLevel(body.tool, body.command)
RiskLevelOf(body) ==
    IF body.riskLevel # None THEN The(body.riskLevel)
    ELSE DetermineRiskLevel(The(body.tool), body.command)

\* process.env.LARK_TIMEOUT: unset, empty, or a text
LarkTimeouts ==
    {None, Some(<< >>), Some(<<"a", "b", "c">>), Some(<<"0">>),
     Some(<<"5", "0", "0">>), Some(<<"-", "5", "0", "0">>),
     Some(<<"1", "5", "0", "0", "m", "s">>)}

DigitValue(c) ==
    CASE c = "0" -> 0 [] c = "1" -> 1 [] c = "2" -> 2 [] c = "3" -> 3
      [] c = "4" -> 4 [] c = "5" -> 5 [] c = "6" -> 6 [] c = "7" -> 7
      [] c = "8" -> 8 [] c = "9" -> 9 [] OTHER -> -1

\* the number written by the leading digits of a text, after `acc`
RECURSIVE ParseDigits(_, _)
ParseDigits(text, acc) ==
    IF text = << >> \/ DigitValue(Head(text)) < 0 THEN acc
    ELSE ParseDigits(Tail(text), 10 * acc + DigitValue(Head(text)))

\* parseInt(text) for a text without leading blanks or a 0x prefix: an
\* optional sign and the digits that follow it, whatever comes after them;
\* NaN (no value) when no digit follows
ParseInt(text) ==
    LET signed == text # << >> /\ Head(text) \in {"-", "+"}
        digits == IF signed THEN Tail(text) ELSE text
    IN  IF digits = << >> \/ DigitValue(Head(digits)) < 0 THEN None
        ELSE IF signed /\ Head(text) = "-" THEN Some(-ParseDigits(digits, 0))
        ELSE Some(ParseDigits(digits, 0))

DEFAULT_TIMEOUT == 5 * 60 * MsPerSecond

\* parseInt(process.env.LARK_TIMEOUT || '') || DEFAULT_TIMEOUT
ConfiguredTimeout(larkTimeout) ==
    LET parsed == ParseInt(IF larkTimeout = None THEN << >> ELSE The(larkTimeout))
    IN  IF parsed = None \/ The(parsed) = 0 THEN DEFAULT_TIMEOUT ELSE The(parsed)

\* the PermissionRequest that POST /api/notify builds from a body
\* (the object it builds has no description)
PermissionRequest(body, requestId, created, timeout) ==
    [requestId |-> requestId, tool |-> The(body.tool), command |-> body.command,
     description |-> None, args |-> body.args,
     workingDirectory |-> The(body.workingDirectory),
     project |-> ProjectOf(body),
     riskLevel |-> RiskLevelOf(body),
     timestamp |-> created, expiresAt |-> created + timeout]

----------------------------------------------------------------------------
(* What a caller sends besides the body: the method, and the Authorization *)
(* header, checked against the key the deployment is configured with.      *)

Methods == {"GET", "POST"}

\* process.env.LARK_API_KEY and process.env.LARK_VERIFICATION_TOKEN
ApiKeys == {None, Some("key")}
VerificationTokens == {None, Some("tok")}

\* req.headers.authorization: the text before the eighth character, and the
\* rest
Authorizations ==
    {None} \cup {Some([scheme |-> s, token |-> k]) :
                    s \in {"Bearer ", "Basic "}, k \in {"key", "bad"}}

\* body.header.token
EventTokens == {"tok", "bad"}

\* a check that is content with any bearer token
VerifyApiKeyAnyBearer(apiKey, authorization) ==
    IF apiKey = None THEN TRUE
    ELSE authorization # None /\ The(authorization).scheme = "Bearer "

VerifyApiKey(apiKey, authorization) ==
    IF apiKey = None THEN TRUE
    ELSE IF authorization = None \/ The(authorization).scheme # "Bearer " THEN FALSE
    ELSE The(authorization).token = The(apiKey)

VerifyEventToken(eventToken, verificationToken) == eventToken = verificationToken

\* the hook script: not started, waiting for the answer of its POST
\* /api/notify, in its polling loop with the request id it read from that
\* answer, or ended with an exit code
NoAgent == [pc |-> "off", requestId |-> None]

----------------------------------------------------------------------------
(* Invocations.  An invocation in flight holds its locals in its slot; when *)
(* it answers, the slot is free again.  What it answers is a function of    *)
(* the state it answers in (PollAnswer, CallbackAnswer, ...), and what has  *)
(* been answered for a request is kept in history.                          *)

IdleProc ==
    [pc |-> "idle", kind |-> "none", id |-> "none",
     decision |-> "none", respondedBy |-> None, message |-> None,
     stored |-> None, read |-> None, ok |-> FALSE, pre |-> {}]

\* expiresAt: the deadline given to the request when it was stored
\* wins:      the decision kinds for which setDecision returned true, in order
\* refused:   the store methods that found a terminal record and returned false
\* polled:    the terminal statuses GET /api/status has reported
\* decisionCards: updateWithDecision calls that went through
NoHistory ==
    [expiresAt |-> None, wins |-> << >>, refused |-> {}, polled |-> {},
     decisionCards |-> 0]

\* the StoredRequest that POST /api/notify builds
NewStoredRequest(body, requestId, created, timeout, messageId) ==
    [request |-> PermissionRequest(body, requestId, created, timeout),
     status |-> "pending", decision |-> None,
     larkMessageId |-> messageId, createdAt |-> created]

MessageIdOf(requestId) == Some(<<"om", requestId>>)

\* the record a caller of the selected backend would find under an id
Rec(requestId) ==
    IF backend = "memory"
    THEN (IF requestId \in DOMAIN store THEN Some(store[requestId]) ELSE None)
    ELSE KVGet(kv, requestId)

\* what has already happened to a request when an invocation on it begins
PreOf(requestId) ==
    LET h == history[requestId]
    IN  (IF "expired" \in h.polled THEN {"after_poll_expired"} ELSE {})
        \cup (IF h.expiresAt # None THEN {"created"} ELSE {})
        \cup {"past_expiry_undecided" :
                 e \in {x \in h.expiresAt : now >= x /\ h.wins = << >>}}

Enter(kind, requestId, pc) ==
    [IdleProc EXCEPT !.pc = pc, !.kind = kind, !.id = requestId,
                     !.pre = PreOf(requestId)]

\* a call that examined `seen` was turned down by its status check
Refused(seen, ok) == ~ok /\ seen # None /\ The(seen).status \in Terminal

\* a setDecision call that examined `seen` has returned `ok`
NoteDecision(h, decision, seen, ok) ==
    IF ok THEN [h EXCEPT !.wins = Append(@, decision)]
    ELSE IF Refused(seen, ok) THEN [h EXCEPT !.refused = @ \cup {"setDecision"}]
    ELSE h

\* a setExpired call that examined `seen` has returned `ok`
NoteExpiry(h, seen, ok) ==
    IF Refused(seen, ok) THEN [h EXCEPT !.refused = @ \cup {"setExpired"}] ELSE h

NotePolled(h, status) ==
    IF status \in Terminal THEN [h EXCEPT !.polled = @ \cup {status}] ELSE h

----------------------------------------------------------------------------
(* Store calls made directly on the store object, as its tests and an      *)
(* external cleanup make them.  A MemoryStore method runs in one piece; a   *)
(* KVStore.setDecision or setExpired is in flight between its two commands. *)

\* store.set(id, data) with a fresh id
DirectSet(p, requestId, timeout) ==
    /\ proc[p].pc = "idle"
    /\ requestId \notin issued
    /\ LET data == NewStoredRequest(PlainBody, requestId, now, timeout,
                                    MessageIdOf(requestId))
       IN  /\ IF backend = "memory"
              THEN LET r == MemorySet(store, timers, requestId, data, now)
                   IN  store' = r.store /\ timers' = r.timers /\ kv' = kv
              ELSE kv' = KVSet(kv, requestId, data, now)
                   /\ UNCHANGED <<store, timers>>
           /\ history' = [history EXCEPT
                  ![requestId].expiresAt = Some(data.request.expiresAt)]
    /\ issued' = issued \cup {requestId}
    /\ UNCHANGED <<handshake, notices, agent, backend, now, card, proc>>

\* store.get(id) as every caller makes it
StoreGet(requestId) ==
    IF backend = "memory" THEN MemoryGet(store, requestId, now)
    ELSE [store |-> store, ret |-> KVGet(kv, requestId)]

\* store.get(id)
DirectGet(p, requestId) ==
    /\ proc[p].pc = "idle"
    /\ store' = StoreGet(requestId).store
    /\ UNCHANGED <<handshake, notices, agent, backend, now, timers, kv, card, issued, proc, history>>

\* store.setDecision(id, decision, respondedBy, message)
DirectSetDecision(p, requestId, decision, respondedBy, message) ==
    /\ proc[p].pc = "idle"
    /\ IF backend = "memory"
       THEN LET r == MemorySetDecision(store, timers, requestId, decision,
                                       respondedBy, message, now)
            IN  /\ store' = r.store /\ timers' = r.timers
                /\ history' = [history EXCEPT ![requestId] =
                       NoteDecision(@, decision, Rec(requestId), r.ret)]
                /\ proc' = proc
       ELSE /\ proc' = [proc EXCEPT ![p] =
                   [Enter("direct", requestId, "kvDecRead") EXCEPT
                       !.decision = decision, !.respondedBy = respondedBy,
                       !.message = message]]
            /\ UNCHANGED <<store, timers, history>>
    /\ UNCHANGED <<handshake, notices, agent, backend, now, kv, card, issued>>

\* store.setExpired(id)
DirectSetExpired(p, requestId) ==
    /\ proc[p].pc = "idle"
    /\ IF backend = "memory"
       THEN LET r == MemorySetExpired(store, timers, requestId)
            IN  /\ store' = r.store /\ timers' = r.timers
                /\ history' = [history EXCEPT ![requestId] =
                       NoteExpiry(@, Rec(requestId), r.ret)]
                /\ proc' = proc
       ELSE /\ proc' = [proc EXCEPT ![p] = Enter("direct", requestId, "kvExpRead")]
            /\ UNCHANGED <<store, timers, history>>
    /\ UNCHANGED <<handshake, notices, agent, backend, now, kv, card, issued>>

\* store.delete(id)
DirectDelete(p, requestId) ==
    /\ proc[p].pc = "idle"
    /\ IF backend = "memory"
       THEN LET r == MemoryDelete(store, timers, requestId)
            IN  store' = r.store /\ timers' = r.timers /\ kv' = kv
       ELSE kv' = KVDelete(kv, requestId) /\ UNCHANGED <<store, timers>>
    /\ UNCHANGED <<handshake, notices, agent, backend, now, card, issued, proc, history>>

----------------------------------------------------------------------------
(* Handlers *)

Reply(code) == [code |-> code, status |-> "none", info |-> None, toast |-> "none"]
StatusReply(status, info) == [Reply(200) EXCEPT !.status = status, !.info = info]
Toast(content) == [Reply(200) EXCEPT !.toast = content]

\* the StoredRequest a handler holds after store.get: MemoryStore hands out the
\* stored object itself, KVStore a copy
View(p) ==
    IF backend = "memory" /\ proc[p].stored # None /\ proc[p].id \in DOMAIN store
    THEN Some(store[proc[p].id])
    ELSE proc[p].stored

(* POST /api/notify *)

\* the answer to a request the handler turns away before it does anything
NotifyReject(fault) ==
    IF fault = "method" THEN Reply(405)
    ELSE IF fault = "auth" THEN Reply(401)
    ELSE Reply(400)

\* a check of the required fields that looks at the tool only
NotifyFaultToolOnly(method, apiKey, authorization, body) ==
    IF method # "POST" THEN "method"
    ELSE IF ~VerifyApiKey(apiKey, authorization) THEN "auth"
    ELSE IF body.tool = None THEN "fields"
    ELSE "none"

\* which of the handler's checks turns a call away
NotifyFault(method, apiKey, authorization, body) ==
    IF method # "POST" THEN "method"
    ELSE IF ~VerifyApiKey(apiKey, authorization) THEN "auth"
    ELSE IF body.tool = None \/ body.workingDirectory = None THEN "fields"
    ELSE "none"

ApiReply(code, data) == [code |-> code, data |-> data]

\* what the handler answers: `sent` tells whether sendPermissionRequest
\* returned or threw
NotifyAnswer(fault, requestId, sent) ==
    IF fault # "none" THEN NotifyReject(fault)
    ELSE IF ~sent THEN ApiReply(500, None)
    ELSE ApiReply(200, Some(requestId))

\* the script takes whatever the answer holds for a request id and begins to
\* poll
AgentAfterNotify(a, answer) ==
    IF a.pc # "notify" THEN a
    ELSE [pc |-> "loop",
          requestId |-> IF answer.code = 200 THEN answer.data ELSE None]

\* a handler that stores the request before it sends the card
NotifySendStoreFirst(p, fault, body, requestId, timeout, sent, messageId) ==
    /\ proc[p].pc = "idle"
    /\ fault = "none"
    /\ requestId \notin issued
    /\ issued' = issued \cup {requestId}
    /\ LET data == NewStoredRequest(body, requestId, now, timeout, messageId)
       IN  /\ IF backend = "memory"
              THEN LET r == MemorySet(store, timers, requestId, data, now)
                   IN  store' = r.store /\ timers' = r.timers /\ kv' = kv
              ELSE kv' = KVSet(kv, requestId, data, now)
                   /\ UNCHANGED <<store, timers>>
           /\ history' = [history EXCEPT
                  ![requestId].expiresAt = Some(data.request.expiresAt)]
    /\ card' = IF sent THEN [card EXCEPT ![requestId] = "request"] ELSE card
    /\ agent' = AgentAfterNotify(agent, NotifyAnswer(fault, requestId, sent))
    /\ UNCHANGED <<handshake, notices, backend, now, proc>>

\* the checks; then the request is built and larkClient.sendPermissionRequest
\* called, which returns the message id ('' when Lark gives none) or throws
NotifySend(p, fault, body, requestId, timeout, sent, messageId) ==
    /\ proc[p].pc = "idle"
    /\ IF fault # "none"
       THEN /\ agent' = AgentAfterNotify(agent, NotifyAnswer(fault, requestId, sent))
            /\ UNCHANGED <<issued, card, proc>>
       ELSE /\ requestId \notin issued
            /\ issued' = issued \cup {requestId}
            /\ IF sent
               THEN /\ card' = [card EXCEPT ![requestId] = "request"]
                    /\ proc' = [proc EXCEPT ![p] =
                           [Enter("notify", requestId, "notifyStore") EXCEPT !.stored =
                               Some(NewStoredRequest(body, requestId, now, timeout,
                                                     messageId))]]
                    /\ agent' = agent
               ELSE /\ agent' = AgentAfterNotify(agent,
                                    NotifyAnswer(fault, requestId, sent))
                    /\ UNCHANGED <<card, proc>>
    /\ UNCHANGED <<handshake, notices, backend, now, store, timers, kv, history>>

\* await store.set(requestId, storedRequest), and the answer
NotifyStore(p) ==
    /\ proc[p].pc = "notifyStore"
    /\ LET data == The(proc[p].stored)
           requestId == proc[p].id
       IN  /\ IF backend = "memory"
              THEN LET r == MemorySet(store, timers, requestId, data, now)
                   IN  store' = r.store /\ timers' = r.timers /\ kv' = kv
              ELSE kv' = KVSet(kv, requestId, data, now)
                   /\ UNCHANGED <<store, timers>>
           /\ history' = [history EXCEPT
                  ![requestId].expiresAt = Some(data.request.expiresAt)]
           /\ agent' = AgentAfterNotify(agent, NotifyAnswer("none", requestId, TRUE))
    /\ proc' = [proc EXCEPT ![p] = IdleProc]
    /\ UNCHANGED <<handshake, notices, backend, now, card, issued>>

(* GET /api/status/:id *)

PollReject(fault) ==
    IF fault = "method" THEN Reply(405)
    ELSE IF fault = "auth" THEN Reply(401)
    ELSE Reply(400)

\* which of the handler's checks turns a call away; `id` is req.query.id
PollFault(method, apiKey, authorization, id) ==
    IF method # "GET" THEN "method"
    ELSE IF ~VerifyApiKey(apiKey, authorization) THEN "auth"
    ELSE IF id = None THEN "id"
    ELSE "none"

\* the checks, and const stored = await store.get(id)
PollGet(p, fault, requestId) ==
    /\ proc[p].pc = "idle"
    /\ IF fault # "none"
       THEN UNCHANGED <<store, proc>>
       ELSE LET r == StoreGet(requestId)
            IN  /\ store' = r.store
                /\ proc' = [proc EXCEPT ![p] =
                       [Enter("poll", requestId, "pollCheck") EXCEPT !.stored = r.ret]]
    /\ UNCHANGED <<handshake, notices, agent, backend, now, timers, kv, card, issued, history>>

\* the fields of the status response taken from stored.decision
DecisionInfo(stored) ==
    {[decision |-> d.decision, respondedAt |-> d.respondedAt, message |-> d.message] :
        d \in stored.decision}

\* an expiry test that lets the deadline instant itself pass as not expired
PollExpiresLate(view, t) ==
    /\ view # None
    /\ The(view).status = "pending"
    /\ t > The(view).request.expiresAt

\* an expiry test that does not look at the clock
PollExpiresAlways(view, t) ==
    /\ view # None
    /\ The(view).status = "pending"

\* whether the handler, holding `view` at instant t, takes its expiry branch
PollExpires(view, t) ==
    /\ view # None
    /\ The(view).status = "pending"
    /\ t >= The(view).request.expiresAt

\* a handler that reports every undecided request as pending, past its
\* deadline or not
PollAnswerUndecidedIsPending(view, t) ==
    IF view = None THEN StatusReply("not_found", None)
    ELSE IF The(view).status \in Decided
    THEN StatusReply(The(view).status, DecisionInfo(The(view)))
    ELSE StatusReply("pending", None)

\* what the handler answers, holding `view` at instant t
PollAnswer(view, t) ==
    IF view = None THEN StatusReply("not_found", None)
    ELSE IF PollExpires(view, t) THEN StatusReply("expired", None)
    ELSE StatusReply(The(view).status, DecisionInfo(The(view)))

\* case "$status" in ... esac: the script ends on approved, denied and
\* expired, sleeps on pending, and has no branch for anything else
AgentCase(status) ==
    CASE status = "approved" -> "exit0"
      [] status = "denied" -> "exit1"
      [] status = "expired" -> "exit1"
      [] OTHER -> "loop"

\* the script reads the status that was answered for its request
AgentAfterPoll(a, requestId, status) ==
    IF a.pc = "loop" /\ a.requestId = Some(requestId)
    THEN [a EXCEPT !.pc = AgentCase(status)]
    ELSE a

\* the handler's checks on what it read, up to its answer or its setExpired call
PollCheck(p) ==
    /\ proc[p].pc = "pollCheck"
    /\ LET requestId == proc[p].id
           view == View(p)
       IN  IF PollExpires(view, now) /\ backend = "kv"
           THEN /\ proc' = [proc EXCEPT ![p].pc = "kvExpRead"]
                /\ UNCHANGED <<store, timers, history, agent>>
           ELSE /\ IF PollExpires(view, now)
                   THEN LET r == MemorySetExpired(store, timers, requestId)
                        IN  store' = r.store /\ timers' = r.timers
                   ELSE UNCHANGED <<store, timers>>
                /\ history' = [history EXCEPT ![requestId] =
                       NotePolled(@, PollAnswer(view, now).status)]
                /\ agent' = AgentAfterPoll(agent, requestId,
                                           PollAnswer(view, now).status)
                /\ proc' = [proc EXCEPT ![p] = IdleProc]
    /\ UNCHANGED <<handshake, notices, backend, now, kv, card, issued>>

(* POST /api/lark/callback, card.action.trigger *)

RECURSIVE TrimStart(_)
TrimStart(text) ==
    IF text # << >> /\ Head(text) = " " THEN TrimStart(Tail(text)) ELSE text

RECURSIVE TrimEnd(_)
TrimEnd(text) ==
    IF text # << >> /\ text[Len(text)] = " "
    THEN TrimEnd(SubSeq(text, 1, Len(text) - 1)) ELSE text

\* String.prototype.trim, for texts of spaces and letters
Trim(text) == TrimEnd(TrimStart(text))

\* action.form_value?.user_message || action.input_value
UserMessage(formValue, inputValue) ==
    IF formValue # None /\ The(formValue) # << >> THEN formValue ELSE inputValue

\* an emptiness test that does not trim
NoMessageUntrimmed(userMessage) ==
    userMessage = None \/ The(userMessage) = << >>

\* !userMessage || userMessage.trim() === ''
NoMessage(userMessage) ==
    userMessage = None \/ The(userMessage) = << >> \/ Trim(The(userMessage)) = << >>

AlreadyToast(status) ==
    CASE status = "approved" -> "Request already approved"
      [] status = "denied" -> "Request already denied"
      [] status = "message" -> "Request already message"
      [] status = "expired" -> "Request already expired"

SuccessToast(decision) ==
    IF decision = "approve" THEN "Approved successfully"
    ELSE IF decision = "message" THEN "Message sent successfully"
    ELSE "Denied successfully"

\* the answer to an event the handler turns away before it touches the store
CallbackReject(fault) ==
    IF fault = "method" THEN Reply(405)
    ELSE IF fault = "token" THEN Reply(401)
    ELSE IF fault = "empty" THEN Reply(200)
    ELSE IF fault = "decision" THEN Reply(400)
    ELSE IF fault = "store" THEN Toast("Failed to process action")
    ELSE Toast("Please enter a message")

\* checks that let any decision kind through
CallbackFaultAnyKind(method, verificationToken, eventToken, requestId, decision) ==
    IF method # "POST" THEN "method"
    ELSE IF verificationToken # None
            /\ ~VerifyEventToken(eventToken, The(verificationToken)) THEN "token"
    ELSE IF requestId = None \/ decision = None THEN "empty"
    ELSE "none"

\* which of the handler's checks turns an event away; requestId and decision
\* are the fields of action.value, either of which may be missing
CallbackFault(method, verificationToken, eventToken, requestId, decision) ==
    IF method # "POST" THEN "method"
    ELSE IF verificationToken # None
            /\ ~VerifyEventToken(eventToken, The(verificationToken)) THEN "token"
    ELSE IF requestId = None \/ decision = None THEN "empty"
    ELSE IF The(decision) \notin Decisions THEN "decision"
    ELSE "none"

\* the event is checked, a message's text read, and store.get(requestId) called
CallbackGet(p, fault, requestId, decision, operator, formValue, inputValue) ==
    /\ proc[p].pc = "idle"
    /\ LET userMessage == UserMessage(formValue, inputValue)
       IN  IF fault # "none" \/ (decision = "message" /\ NoMessage(userMessage))
           THEN UNCHANGED <<store, proc>>
           ELSE LET r == StoreGet(requestId)
                IN  /\ store' = r.store
                    /\ proc' = [proc EXCEPT ![p] =
                           [Enter("callback", requestId, "cbCheck") EXCEPT
                               !.decision = decision,
                               !.respondedBy = Some(operator),
                               !.stored = r.ret,
                               !.message = IF decision = "message"
                                           THEN Some(Trim(The(userMessage)))
                                           ELSE None]]
    /\ UNCHANGED <<handshake, notices, agent, backend, now, timers, kv, card, issued, history>>

\* what the handler does, holding `view` at instant t: answer at once, or call
\* setExpired or setDecision
CallbackBranch(view, t) ==
    IF view = None THEN "not_found"
    ELSE IF The(view).status # "pending" THEN "already"
    ELSE IF t >= The(view).request.expiresAt THEN "setExpired"
    ELSE "setDecision"

\* the toast of a handler that answers at once
CallbackAnswer(view) ==
    IF view = None THEN Toast("Request not found or already processed")
    ELSE Toast(AlreadyToast(The(view).status))

\* the handler's checks on what it read, up to its answer or its store call
CallbackCheck(p) ==
    /\ proc[p].pc = "cbCheck"
    /\ LET requestId == proc[p].id
           branch == CallbackBranch(View(p), now)
       IN  IF branch \in {"not_found", "already"}
           THEN /\ proc' = [proc EXCEPT ![p] = IdleProc]
                /\ UNCHANGED <<store, timers, history>>
           ELSE IF backend = "kv"
           THEN /\ proc' = [proc EXCEPT ![p].pc =
                       IF branch = "setExpired" THEN "kvExpRead" ELSE "kvDecRead"]
                /\ UNCHANGED <<store, timers, history>>
           ELSE IF branch = "setExpired"
           THEN LET r == MemorySetExpired(store, timers, requestId)
                IN  /\ store' = r.store /\ timers' = r.timers
                    /\ proc' = [proc EXCEPT ![p].pc = "cbExpired", ![p].ok = r.ret]
                    /\ history' = [history EXCEPT ![requestId] =
                           NoteExpiry(@, Rec(requestId), r.ret)]
           ELSE LET r == MemorySetDecision(store, timers, requestId,
                             proc[p].decision, proc[p].respondedBy,
                             proc[p].message, now)
                IN  /\ store' = r.store /\ timers' = r.timers
                    /\ proc' = [proc EXCEPT ![p].pc = "cbDecided", ![p].ok = r.ret]
                    /\ history' = [history EXCEPT ![requestId] =
                           NoteDecision(@, proc[p].decision, Rec(requestId), r.ret)]
    /\ UNCHANGED <<handshake, notices, agent, backend, now, kv, card, issued>>

\* whether the handler holds a notification handle (stored.larkMessageId)
HasCard(p) == The(View(p)).larkMessageId # None

\* the toast after setExpired; `updated`: updateAsExpired went through
ExpiredAnswer(p, updated) ==
    IF HasCard(p) /\ ~updated THEN Toast("Failed to process action")
    ELSE Toast("Request has expired")

\* after setExpired: larkClient.updateAsExpired, which may throw, and the toast
CallbackExpired(p, updated) ==
    /\ proc[p].pc = "cbExpired"
    /\ updated \/ HasCard(p)
    /\ card' = IF HasCard(p) /\ updated
               THEN [card EXCEPT ![proc[p].id] = "expired"] ELSE card
    /\ proc' = [proc EXCEPT ![p] = IdleProc]
    /\ UNCHANGED <<handshake, notices, agent, backend, now, store, timers, kv, issued, history>>

\* an answer that lets the failure of the card update out as an error status
DecidedAnswerError(p, updated) ==
    IF ~proc[p].ok THEN Toast("Failed to process decision")
    ELSE IF HasCard(p) /\ ~updated THEN Reply(500)
    ELSE Toast(SuccessToast(proc[p].decision))

\* the toast after setDecision returned proc[p].ok
DecidedAnswer(p, updated) ==
    IF ~proc[p].ok THEN Toast("Failed to process decision")
    ELSE IF HasCard(p) /\ ~updated THEN Toast("Failed to process action")
    ELSE Toast(SuccessToast(proc[p].decision))

\* a handler that takes the decision back when the card update throws
CallbackDecidedRollback(p, updated) ==
    /\ proc[p].pc = "cbDecided"
    /\ updated \/ (proc[p].ok /\ HasCard(p))
    /\ IF proc[p].ok /\ HasCard(p) /\ updated
       THEN /\ card' = [card EXCEPT ![proc[p].id] = proc[p].decision]
            /\ history' = [history EXCEPT ![proc[p].id].decisionCards = @ + 1]
       ELSE UNCHANGED <<card, history>>
    /\ IF proc[p].ok /\ HasCard(p) /\ ~updated
       THEN /\ store' = [i \in DOMAIN store |->
                   IF i = proc[p].id
                   THEN [store[i] EXCEPT !.status = "pending", !.decision = None]
                   ELSE store[i]]
            /\ kv' = [i \in DOMAIN kv |->
                   IF i = proc[p].id
                   THEN [kv[i] EXCEPT !.value.status = "pending",
                                      !.value.decision = None]
                   ELSE kv[i]]
       ELSE UNCHANGED <<store, kv>>
    /\ proc' = [proc EXCEPT ![p] = IdleProc]
    /\ UNCHANGED <<handshake, notices, agent, backend, now, timers, issued>>

\* after setDecision: the failure toast, or larkClient.updateWithDecision, which
\* may throw, and the success toast
CallbackDecided(p, updated) ==
    /\ proc[p].pc = "cbDecided"
    /\ updated \/ (proc[p].ok /\ HasCard(p))
    /\ IF proc[p].ok /\ HasCard(p) /\ updated
       THEN /\ card' = [card EXCEPT ![proc[p].id] = proc[p].decision]
            /\ history' = [history EXCEPT ![proc[p].id].decisionCards = @ + 1]
       ELSE UNCHANGED <<card, history>>
    /\ proc' = [proc EXCEPT ![p] = IdleProc]
    /\ UNCHANGED <<handshake, notices, agent, backend, now, store, timers, kv, issued>>

(* POST /api/message *)

\* which of the handler's checks turns a call away; `complete`: the body has
\* its type, title and content
MessageFault(method, apiKey, authorization, complete) ==
    IF method # "POST" THEN "method"
    ELSE IF ~VerifyApiKey(apiKey, authorization) THEN "auth"
    ELSE IF ~complete THEN "fields"
    ELSE "none"

\* what the handler answers: `sent` tells whether Lark took the card
MessageAnswer(fault, sent) ==
    IF fault = "method" THEN Reply(405)
    ELSE IF fault = "auth" THEN Reply(401)
    ELSE IF fault = "fields" THEN Reply(400)
    ELSE IF ~sent THEN Reply(500)
    ELSE Reply(200)

\* the checks, and the card is posted to the chat
MessageSend(fault, sent) ==
    /\ notices' = IF fault = "none" /\ sent /\ notices < MaxNotices
                  THEN notices + 1 ELSE notices
    /\ UNCHANGED <<handshake, agent, backend, now, store, timers, kv, card, issued, proc,
                   history>>

\* a url_verification event: body.token and body.challenge, either of which
\* may be missing
UrlVerifications ==
    [token : {None, Some("tok"), Some("bad")},
     challenge : {None, Some("c1"), Some("c2")}]

\* res.status(200).json({ challenge })
ChallengeReply(challenge) == [code |-> 200, challenge |-> challenge]

\* a handshake that looks at no token
HandleUrlVerificationUnchecked(verificationToken, body) ==
    ChallengeReply(body.challenge)

HandleUrlVerification(verificationToken, body) ==
    IF verificationToken # None /\ body.token # verificationToken
    THEN [code |-> 401]
    ELSE ChallengeReply(body.challenge)

\* the callback handler on an event whose type is url_verification
UrlVerification(method, verificationToken, body) ==
    /\ handshake' =
          Some([method |-> method, verificationToken |-> verificationToken,
                body |-> body,
                answer |-> IF method # "POST" THEN [code |-> 405]
                           ELSE HandleUrlVerification(verificationToken, body)])
    /\ UNCHANGED <<notices, agent, backend, now, store, timers, kv, card,
                   issued, proc, history>>

----------------------------------------------------------------------------
(* The two Redis commands of KVStore.setDecision and KVStore.setExpired    *)

\* const stored = await this.get(requestId)
SetDecisionRead(p) ==
    /\ proc[p].pc = "kvDecRead"
    /\ proc' = [proc EXCEPT ![p].pc = "kvDecWrite", ![p].read = KVGet(kv, proc[p].id)]
    /\ UNCHANGED <<handshake, notices, agent, backend, now, store, timers, kv, card, issued, history>>

\* the checks, and await this.kv.set(key, updated, { ex: ttlSeconds }); the
\* call returns to its caller
SetDecisionWrite(p) ==
    /\ proc[p].pc = "kvDecWrite"
    /\ LET r == KVSetDecision(kv, proc[p].id, proc[p].read, proc[p].decision,
                              proc[p].respondedBy, now)
       IN  /\ kv' = r.kv
           /\ proc' = [proc EXCEPT ![p] =
                  IF proc[p].kind = "direct" THEN IdleProc
                  ELSE [@ EXCEPT !.pc = "cbDecided", !.ok = r.ret, !.read = None]]
           /\ history' = [history EXCEPT ![proc[p].id] =
                  NoteDecision(@, proc[p].decision, proc[p].read, r.ret)]
    /\ UNCHANGED <<handshake, notices, agent, backend, now, store, timers, card, issued>>

SetExpiredRead(p) ==
    /\ proc[p].pc = "kvExpRead"
    /\ proc' = [proc EXCEPT ![p].pc = "kvExpWrite", ![p].read = KVGet(kv, proc[p].id)]
    /\ UNCHANGED <<handshake, notices, agent, backend, now, store, timers, kv, card, issued, history>>

\* the checks, and await this.kv.set(key, updated, { ex: 60 }); the call
\* returns to its caller, and the status handler answers expired
SetExpiredWrite(p) ==
    /\ proc[p].pc = "kvExpWrite"
    /\ LET r == KVSetExpired(kv, proc[p].id, proc[p].read, now)
       IN  /\ kv' = r.kv
           /\ proc' = [proc EXCEPT ![p] =
                  IF proc[p].kind = "callback"
                  THEN [@ EXCEPT !.pc = "cbExpired", !.ok = r.ret, !.read = None]
                  ELSE IdleProc]
           /\ history' = [history EXCEPT ![proc[p].id] =
                  IF proc[p].kind = "poll"
                  THEN NotePolled(NoteExpiry(@, proc[p].read, r.ret), "expired")
                  ELSE NoteExpiry(@, proc[p].read, r.ret)]
           /\ agent' = IF proc[p].kind = "poll"
                       THEN AgentAfterPoll(agent, proc[p].id, "expired")
                       ELSE agent
    /\ UNCHANGED <<handshake, notices, backend, now, store, timers, card, issued>>

----------------------------------------------------------------------------
(* The environment: the clock and the timers *)

\* time passes; Redis drops the keys whose expiry is reached.  The clock's
\* origin is the instant the first request id is generated.
Tick(t) ==
    /\ t > now
    /\ issued # {}
    /\ now' = t
    /\ kv' = KVEvict(kv, t)
    /\ UNCHANGED <<handshake, notices, agent, backend, store, timers, card, issued, proc, history>>

\* a timeout armed by MemoryStore.set comes due
TimerFire(requestId) ==
    /\ requestId \in DOMAIN timers
    /\ now >= timers[requestId]
    /\ LET r == HandleExpiration(store, timers, requestId)
       IN  store' = r.store /\ timers' = r.timers
    /\ UNCHANGED <<handshake, notices, agent, backend, now, kv, card, issued, proc, history>>

----------------------------------------------------------------------------
Init ==
    /\ backend \in {"memory", "kv"}
    /\ now = 0
    /\ store = << >>
    /\ timers = << >>
    /\ kv = << >>
    /\ card = [i \in RequestIds |-> "none"]
    /\ issued = {}
    /\ proc = [p \in Procs |-> IdleProc]
    /\ history = [i \in RequestIds |-> NoHistory]
    /\ notices = 0
    /\ agent = NoAgent
    /\ handshake = None

Environment ==
    \/ \E t \in TimePoints : Tick(t)
    \/ \E i \in RequestIds : TimerFire(i)

StoreSteps ==
    \E p \in Procs :
        \/ SetDecisionRead(p)
        \/ SetDecisionWrite(p)
        \/ SetExpiredRead(p)
        \/ SetExpiredWrite(p)

Texts == {<< >>, <<" ">>, <<" ", "s", " ">>}
Fields == {None} \cup {Some(t) : t \in Texts}

DirectCalls(p, free) ==
    \/ \E i \in RequestIds, d \in Timeouts : free /\ DirectSet(p, i, d)
    \/ \E i \in RequestIds : free /\ DirectGet(p, i)
    \/ \E i \in RequestIds, d \in Decisions, o \in Operators :
           free /\ DirectSetDecision(p, i, d, Some(o),
                       IF d = "message" THEN Some(<<"s">>) ELSE None)
    \/ \E i \in RequestIds : free /\ DirectSetExpired(p, i)
    \/ \E i \in RequestIds : free /\ DirectDelete(p, i)

\* store calls that overlap
NextStore ==
    \/ \E p \in Procs : DirectCalls(p, TRUE)
    \/ StoreSteps
    \/ Environment

SpecStore == Init /\ [][NextStore]_vars

\* store calls each run to completion: a call begins only when none is in flight
Quiet == \A q \in Procs : proc[q].pc = "idle"

NextStoreSeq ==
    \/ \E p \in Procs : DirectCalls(p, Quiet)
    \/ StoreSteps
    \/ Environment

SpecStoreSeq == Init /\ [][NextStoreSeq]_vars

\* store.set is given records of any lifetime: one already over, one of no
\* length, and ones that end within, at and past a whole second
Lifetimes ==
    {-ShortTimeout, 0, 1, ShortTimeout, MsPerSecond, MsPerSecond + 1,
     3 * ShortTimeout}

NextStoreLifetimes ==
    \/ \E p \in Procs, i \in RequestIds, d \in Lifetimes :
           Quiet /\ DirectSet(p, i, d)
    \/ NextStoreSeq

SpecStoreLifetimes == Init /\ [][NextStoreLifetimes]_vars

NotifyFaults == {"method", "auth", "fields"}
PollFaults == {"method", "auth", "id"}
CallbackFaults == {"method", "token", "empty", "decision"}

Handlers(p) ==
    \/ \E f \in NotifyFaults, i \in RequestIds, d \in Timeouts :
           NotifySend(p, f, PlainBody, i, d, TRUE, MessageIdOf(i))
    \/ \E i \in RequestIds, d \in Timeouts, ok \in BOOLEAN :
           NotifySend(p, "none", PlainBody, i, d, ok, MessageIdOf(i))
    \/ NotifyStore(p)
    \/ \E f \in PollFaults, i \in RequestIds : PollGet(p, f, i)
    \/ \E i \in RequestIds : PollGet(p, "none", i)
    \/ PollCheck(p)
    \/ \E f \in CallbackFaults, i \in RequestIds, o \in Operators :
           CallbackGet(p, f, i, "approve", o, None, None)
    \/ \E i \in RequestIds, d \in {"approve", "deny"}, o \in Operators :
           CallbackGet(p, "none", i, d, o, None, None)
    \/ \E i \in RequestIds, o \in Operators, fv \in Fields, iv \in Fields :
           CallbackGet(p, "none", i, "message", o, fv, iv)
    \/ CallbackCheck(p)
    \/ \E u \in BOOLEAN : CallbackExpired(p, u)
    \/ \E u \in BOOLEAN : CallbackDecided(p, u)

\* the deployed system: agents, approvers and pollers call the three endpoints
Next ==
    \/ \E p \in Procs : Handlers(p)
    \/ StoreSteps
    \/ Environment

Spec == Init /\ [][Next]_vars

\* the volatile store, with an agent that keeps polling: time passes, every
\* invocation runs on to its answer, and each request is polled again and
\* again.  Nothing makes the timers of MemoryStore fire.
InitVolatile == Init /\ backend = "memory"

Progress ==
    /\ WF_vars(\E t \in TimePoints : Tick(t))
    /\ WF_vars(\E p \in Procs :
                  \/ NotifyStore(p) \/ PollCheck(p) \/ CallbackCheck(p)
                  \/ \E u \in BOOLEAN : CallbackExpired(p, u) \/ CallbackDecided(p, u))
    /\ \A i \in RequestIds : SF_vars(\E p \in Procs : PollGet(p, "none", i))

\* KVStore's commands have no part in it
NextPolling ==
    \/ \E p \in Procs : Handlers(p)
    \/ Environment

SpecPolling == InitVolatile /\ [][NextPolling]_vars /\ Progress

\* MemoryStore with its timers: records of any lifetime are set, read,
\* decided and deleted, one call at a time; time passes and a timer that is
\* due fires.  setExpired is left to the KV backend: the handlers call it
\* only on a record that get returned pending past its deadline, and
\* MemoryStore.get returns no such record.
NextTimers ==
    \/ \E p \in Procs, i \in RequestIds, d \in Lifetimes : Quiet /\ DirectSet(p, i, d)
    \/ \E p \in Procs, i \in RequestIds : Quiet /\ DirectGet(p, i)
    \/ \E p \in Procs, i \in RequestIds, d \in Decisions, o \in Operators :
           Quiet /\ DirectSetDecision(p, i, d, Some(o), None)
    \/ \E p \in Procs, i \in RequestIds : Quiet /\ DirectDelete(p, i)
    \/ Environment

TimersRun ==
    /\ WF_vars(\E t \in TimePoints : Tick(t))
    /\ \A i \in RequestIds : WF_vars(TimerFire(i))

SpecTimers == InitVolatile /\ [][NextTimers]_vars /\ TimersRun

----------------------------------------------------------------------------
(* The endpoints as their callers reach them: every call carries a method, *)
(* its credentials and its fields, any of which may be wrong or missing.    *)
(* One call is handled at a time, in the first slot.                        *)

Ids == {None} \cup {Some(i) : i \in RequestIds}
EventDecisions == {None} \cup {Some(d) : d \in Decisions \cup {"always"}}

\* the value of a field that is there
Given(field) == IF field = None THEN "none" ELSE The(field)

Free(p) == Quiet /\ \A q \in Procs : p <= q

Notify(p, method, apiKey, authorization, body, requestId, timeout, sent) ==
    /\ Free(p)
    /\ NotifySend(p, NotifyFault(method, apiKey, authorization, body), body,
                  requestId, timeout, sent, MessageIdOf(requestId))

Poll(p, method, apiKey, authorization, id) ==
    /\ Free(p)
    /\ PollGet(p, PollFault(method, apiKey, authorization, id), Given(id))

Callback(p, method, verificationToken, eventToken, requestId, decision, operator, formValue) ==
    /\ Free(p)
    /\ CallbackGet(p, CallbackFault(method, verificationToken, eventToken,
                                    requestId, decision),
                   Given(requestId), Given(decision), operator, formValue, None)

\* an event that passes the checks and finds the store out of reach
CallbackStoreDown(p, requestId, decision, operator) ==
    /\ Free(p)
    /\ CallbackGet(p, "store", requestId, decision, operator, None, None)

Message(method, apiKey, authorization, complete, sent) ==
    /\ Quiet
    /\ MessageSend(MessageFault(method, apiKey, authorization, complete), sent)

NextRequests ==
    \/ \E p \in Procs, m \in Methods, k \in ApiKeys, a \in Authorizations,
          i \in RequestIds, d \in Timeouts, ok \in BOOLEAN :
           Notify(p, m, k, a, PlainBody, i, d, ok)
    \/ \E p \in Procs : NotifyStore(p)
    \/ \E p \in Procs, m \in Methods, k \in ApiKeys, a \in Authorizations,
          id \in Ids : Poll(p, m, k, a, id)
    \/ \E p \in Procs : PollCheck(p)
    \/ \E p \in Procs, m \in Methods, v \in VerificationTokens,
          e \in EventTokens, id \in Ids, d \in EventDecisions,
          o \in Operators, fv \in Fields : Callback(p, m, v, e, id, d, o, fv)
    \/ \E p \in Procs, i \in RequestIds, d \in {"approve", "deny"},
          o \in Operators : CallbackStoreDown(p, i, d, o)
    \/ \E p \in Procs : CallbackCheck(p)
    \/ \E p \in Procs, u \in BOOLEAN : CallbackExpired(p, u)
    \/ \E p \in Procs, u \in BOOLEAN : CallbackDecided(p, u)
    \/ \E m \in Methods, k \in ApiKeys, a \in Authorizations,
          c \in BOOLEAN, ok \in BOOLEAN : Message(m, k, a, c, ok)
    \/ StoreSteps
    \/ Environment

SpecRequests == Init /\ [][NextRequests]_vars

\* the events Lark sends to POST /api/lark/callback, handshakes among them,
\* for requests created in between
NextCallback ==
    \/ \E m \in Methods, v \in VerificationTokens, b \in UrlVerifications :
           Quiet /\ UrlVerification(m, v, b)
    \/ \E p \in Procs, i \in RequestIds, d \in Timeouts, ok \in BOOLEAN :
           Notify(p, "POST", None, None, PlainBody, i, d, ok)
    \/ \E p \in Procs : NotifyStore(p)
    \/ \E p \in Procs, v \in VerificationTokens, e \in EventTokens,
          id \in Ids, d \in EventDecisions, o \in Operators, fv \in Fields :
           Callback(p, "POST", v, e, id, d, o, fv)
    \/ \E p \in Procs : CallbackCheck(p)
    \/ \E p \in Procs, u \in BOOLEAN : CallbackExpired(p, u)
    \/ \E p \in Procs, u \in BOOLEAN : CallbackDecided(p, u)
    \/ StoreSteps
    \/ Environment

SpecCallback == Init /\ [][NextCallback]_vars

\* requests are created from every body, and polled
NextCreate ==
    \/ \E p \in Procs, m \in Methods, b \in Bodies, i \in RequestIds,
          d \in Timeouts, ok \in BOOLEAN : Notify(p, m, None, None, b, i, d, ok)
    \/ \E p \in Procs : NotifyStore(p)
    \/ \E p \in Procs, id \in Ids : Poll(p, "GET", None, None, id)
    \/ \E p \in Procs : PollCheck(p)
    \/ \E p \in Procs : SetExpiredRead(p) \/ SetExpiredWrite(p)
    \/ Environment

SpecCreate == Init /\ [][NextCreate]_vars

\* requests are created under every setting of LARK_TIMEOUT, from bodies
\* with their optional fields, and polled
NextConfigured ==
    \/ \E p \in Procs, e \in LarkTimeouts, b \in DescribedBodies,
          i \in RequestIds, ok \in BOOLEAN :
           Notify(p, "POST", None, None, b, i, ConfiguredTimeout(e), ok)
    \/ \E p \in Procs : NotifyStore(p)
    \/ \E p \in Procs, id \in Ids : Poll(p, "GET", None, None, id)
    \/ \E p \in Procs : PollCheck(p)
    \/ \E p \in Procs : SetExpiredRead(p) \/ SetExpiredWrite(p)
    \/ Environment

SpecConfigured == Init /\ [][NextConfigured]_vars

----------------------------------------------------------------------------
(* The hook script of the setup guide: it posts the request, reads the     *)
(* request id from the answer and polls the status, one call at a time,     *)
(* while approvers answer the card.                                         *)

AgentRun ==
    /\ agent.pc = "off"
    /\ agent' = [agent EXCEPT !.pc = "notify"]
    /\ UNCHANGED <<handshake, notices, backend, now, store, timers, kv, card, issued, proc,
                   history>>

\* none of the script's calls is in flight
AgentIdle == \A q \in Procs : proc[q].kind \notin {"notify", "poll"}

\* curl -X POST $WEBHOOK_SERVER/api/notify
AgentNotify(p, requestId, timeout, sent) ==
    /\ agent.pc = "notify"
    /\ AgentIdle
    /\ NotifySend(p, "none", PlainBody, requestId, timeout, sent, MessageIdOf(requestId))

\* curl -X GET $WEBHOOK_SERVER/api/status/$request_id
AgentPoll(p) ==
    /\ agent.pc = "loop"
    /\ agent.requestId # None
    /\ AgentIdle
    /\ PollGet(p, "none", The(agent.requestId))

\* the same call when the answer of POST /api/notify held no request id: the
\* script asks for the id "null", which no request has
AgentPollUnknown ==
    /\ agent.pc = "loop"
    /\ agent.requestId = None
    /\ agent' = [agent EXCEPT !.pc = AgentCase(PollAnswer(None, now).status)]
    /\ UNCHANGED <<handshake, notices, backend, now, store, timers, kv, card, issued, proc,
                   history>>

\* an approver presses a button of the card, once the card is in the chat
\* and the event of an earlier press has been answered
ApproverClick(p, requestId, decision, operator) ==
    /\ card[requestId] # "none"
    /\ \A q \in Procs : proc[q].kind # "callback"
    /\ CallbackGet(p, "none", requestId, decision, operator, Some(<<"s">>), None)

NextAgent ==
    \/ AgentRun
    \/ \E p \in Procs, i \in RequestIds, d \in Timeouts, ok \in BOOLEAN :
           AgentNotify(p, i, d, ok)
    \/ \E p \in Procs : NotifyStore(p)
    \/ \E p \in Procs : AgentPoll(p)
    \/ AgentPollUnknown
    \/ \E p \in Procs : PollCheck(p)
    \/ \E p \in Procs, i \in RequestIds, d \in Decisions, o \in Operators :
           ApproverClick(p, i, d, o)
    \/ \E p \in Procs : CallbackCheck(p)
    \/ \E p \in Procs, u \in BOOLEAN : CallbackExpired(p, u)
    \/ \E p \in Procs, u \in BOOLEAN : CallbackDecided(p, u)
    \/ StoreSteps
    \/ Environment

SpecAgent == Init /\ [][NextAgent]_vars

----------------------------------------------------------------------------
(* Properties of the store contract *)

\* a setDecision call run from start to end in the current state: the record
\* it leaves and the value it returns
SetDecisionCall(requestId, decision, respondedBy, message) ==
    IF backend = "memory"
    THEN LET r == MemorySetDecision(store, timers, requestId, decision,
                                    respondedBy, message, now)
         IN  [after |-> IF requestId \in DOMAIN r.store
                        THEN Some(r.store[requestId]) ELSE None,
              ret |-> r.ret]
    ELSE LET r == KVSetDecision(kv, requestId, KVGet(kv, requestId), decision,
                                respondedBy, now)
         IN  [after |-> KVGet(r.kv, requestId), ret |-> r.ret]

Messages == {None, Some(<<"s">>)}

\* C1: with store calls run one after another, a record whose status is
\* approved, denied, message or expired keeps its status and its decision
\* for as long as it stays in the store, whatever is called next.
C1_TerminalIsAbsorbing ==
    [][\A i \in RequestIds :
          (Rec(i) # None /\ The(Rec(i)).status \in Terminal /\ Rec(i)' # None)
          => /\ The(Rec(i)').status = The(Rec(i)).status
             /\ The(Rec(i)').decision = The(Rec(i)).decision]_vars

\* a settled record on which a later setDecision and a later setExpired have
\* both been turned down
C1_Witness ==
    \E i \in RequestIds :
        /\ Rec(i) # None
        /\ The(Rec(i)).status \in Terminal
        /\ history[i].refused = {"setDecision", "setExpired"}

\* C2: of the setDecision calls made on one pending record, at most one
\* returns true, and a record that carries a decision carries that call's.
C2_OneCallWins ==
    \A i \in RequestIds :
        /\ Len(history[i].wins) <= 1
        /\ (Rec(i) # None /\ The(Rec(i)).decision # None)
           => /\ The(Rec(i)).status \in Decided
              /\ history[i].wins = << The(The(Rec(i)).decision).decision >>

\* C5: setDecision returns true only on a record that exists, is pending and
\* has now < expiresAt; on a pending record with now >= expiresAt it sets the
\* status to expired and returns false; on a missing or settled record it
\* returns false and changes nothing.
C5_SetDecisionContract ==
    \A i \in RequestIds, d \in Decisions, by \in Operators, m \in Messages :
        LET rec == Rec(i)
            r == SetDecisionCall(i, d, Some(by), m)
            pending == rec # None /\ The(rec).status = "pending"
        IN  /\ r.ret => pending /\ now < The(rec).request.expiresAt
            /\ (pending /\ now >= The(rec).request.expiresAt)
               => /\ ~r.ret
                  /\ r.after # None
                  /\ The(r.after).status = "expired"
            /\ ~pending => ~r.ret /\ r.after = rec

\* C6: once a setDecision call on an id has returned true, every setDecision
\* call on that id made afterwards returns false and leaves the record as it
\* is, whoever makes it and whatever decision it carries.
C6_DecideOnce ==
    \A i \in RequestIds :
        Len(history[i].wins) >= 1
        => /\ \A d \in Decisions, by \in Operators, m \in Messages :
                  LET r == SetDecisionCall(i, d, Some(by), m)
                  IN  ~r.ret /\ r.after = Rec(i)
           /\ \A p \in Procs :
                  (proc[p].pc = "kvDecWrite" /\ proc[p].id = i)
                  => LET r == KVSetDecision(kv, i, proc[p].read, proc[p].decision,
                                            proc[p].respondedBy, now)
                     IN  ~r.ret /\ r.kv = kv

\* a decided record on which a later setDecision call has been turned down
C6_Witness ==
    \E i \in RequestIds :
        /\ Len(history[i].wins) = 1
        /\ "setDecision" \in history[i].refused
        /\ Rec(i) # None
        /\ The(Rec(i)).status \in Decided

----------------------------------------------------------------------------
(* Properties of the handlers *)

\* C3: a poll and a callback that run at the same time on one request agree:
\* the polls report one terminal status only, and once a poll has reported
\* expired the record never holds a decision.
C3_PollAndCallbackAgree ==
    \A i \in RequestIds :
        /\ Cardinality(history[i].polled) <= 1
        /\ ("expired" \in history[i].polled /\ Rec(i) # None)
           => /\ The(Rec(i)).status \notin Decided
              /\ The(Rec(i)).decision = None

\* C4: a stored decision was made before the deadline: a record with status
\* approved, denied or message has decision.respondedAt < request.expiresAt.
C4_DecidedBeforeDeadline ==
    \A i \in RequestIds :
        (Rec(i) # None /\ The(Rec(i)).status \in Decided)
        => /\ The(Rec(i)).decision # None
           /\ The(The(Rec(i)).decision).respondedAt < The(Rec(i)).request.expiresAt

\* the number of places of a sequence that hold v
Count(seq, v) == Cardinality({n \in DOMAIN seq : seq[n] = v})

\* C7: when one action event is delivered more than once, one delivery is
\* applied: setDecision returns true for one of them, the card is rewritten
\* with the decision once, and the others are told the request is already
\* processed.
C7_OneDeliveryApplies ==
    \A i \in RequestIds :
        /\ \A d \in Decisions : Count(history[i].wins, d) <= 1
        /\ history[i].decisionCards <= 1
        /\ \A p \in Procs :
               (proc[p].pc = "cbDecided" /\ proc[p].id = i
                   /\ Count(history[i].wins, proc[p].decision) >= 1)
               => proc[p].ok

\* whether the callback handler, holding `view` at instant t, reports the
\* request as expired
CallbackSaysExpired(view, t) ==
    \/ CallbackBranch(view, t) = "setExpired"
    \/ CallbackBranch(view, t) = "already" /\ The(view).status = "expired"

\* C8: a stored request whose deadline has passed without a decision is
\* expired whoever touches it first: store.get returns it as expired, and a
\* poll or a callback that begins then reports it as expired.
C8_ExpiredOnFirstTouch ==
    \A i \in RequestIds :
        /\ (history[i].expiresAt # None /\ now >= The(history[i].expiresAt)
               /\ history[i].wins = << >>)
           => /\ StoreGet(i).ret # None
              /\ The(StoreGet(i).ret).status = "expired"
        /\ \A p \in Procs :
               (proc[p].id = i /\ "past_expiry_undecided" \in proc[p].pre)
               => /\ proc[p].pc = "pollCheck"
                     => PollAnswer(View(p), now).status = "expired"
                  /\ proc[p].pc = "cbCheck" => CallbackSaysExpired(View(p), now)

\* C9: after a poll has reported a request as expired, a callback for it
\* records no decision and a later poll reports expired again.
C9_ExpiredStaysExpired ==
    \A p \in Procs :
        "after_poll_expired" \in proc[p].pre
        => /\ proc[p].pc = "cbCheck" => CallbackBranch(View(p), now) # "setDecision"
           /\ proc[p].pc = "cbDecided" => ~proc[p].ok
           /\ proc[p].pc = "pollCheck"
                 => PollAnswer(View(p), now).status = "expired"

\* C10: a poll that holds a pending record at or after its deadline does not
\* answer pending: it starts the expiry transition and answers expired, on
\* either backend.
C10_PollPastDeadline ==
    [][\A p \in Procs, i \in RequestIds :
          LET view == View(p)
              late == /\ view # None
                      /\ The(view).status = "pending"
                      /\ now >= The(view).request.expiresAt
          IN  /\ (proc[p].pc = "pollCheck" /\ proc[p].id = i /\ proc'[p] # proc[p])
                 => /\ PollAnswer(view, now).status = "pending"
                          => now < The(view).request.expiresAt
                    /\ late => IF backend = "memory"
                               THEN /\ The(Rec(i)').status = "expired"
                                    /\ "expired" \in history'[i].polled
                                    /\ proc'[p].pc = "idle"
                               ELSE proc'[p].pc = "kvExpRead"
              /\ (proc[p].pc = "kvExpWrite" /\ proc[p].kind = "poll"
                      /\ proc[p].id = i /\ proc'[p] # proc[p])
                 => /\ "expired" \in history'[i].polled
                    /\ (proc[p].read # None /\ The(proc[p].read).status = "pending")
                          => The(Rec(i)').status = "expired"]_vars

\* a poll on the durable backend that found the record pending past its
\* deadline, has read it again inside setExpired and is about to write
C10_Witness ==
    \E p \in Procs :
        /\ proc[p].kind = "poll"
        /\ proc[p].pc = "kvExpWrite"
        /\ proc[p].read # None
        /\ The(proc[p].read).status = "pending"
        /\ now >= The(proc[p].read).request.expiresAt

\* C11: when POST /api/notify has stored the request, its record is pending
\* and carries no decision; and a poll made after that answers pending as long
\* as the deadline has not come and no decision has been applied.
C11_PendingUntilDeadline ==
    [][\A p \in Procs, i \in RequestIds :
          /\ (proc[p].pc = "notifyStore" /\ proc[p].id = i /\ proc'[p] # proc[p])
             => /\ Rec(i)' # None
                /\ The(Rec(i)').status = "pending"
                /\ The(Rec(i)').decision = None
          /\ (proc[p].pc = "pollCheck" /\ proc[p].id = i /\ proc'[p] # proc[p]
                  /\ "created" \in proc[p].pre
                  /\ history[i].wins = << >>
                  /\ now < The(history[i].expiresAt))
             => /\ PollAnswer(View(p), now).status = "pending"
                /\ proc'[p].pc = "idle"]_vars

\* a poll that began after the request was stored is about to answer, before
\* the deadline and before any decision
C11_Witness ==
    \E p \in Procs :
        /\ proc[p].pc = "pollCheck"
        /\ "created" \in proc[p].pre
        /\ history[proc[p].id].wins = << >>
        /\ now < The(history[proc[p].id].expiresAt)
        /\ View(p) # None
        /\ The(View(p)).status = "pending"

\* C12: a record is expired only once its deadline has come: whichever of the
\* poll handler, the callback handler, the lazy check in get and the timer
\* makes the transition, it makes it with now >= expiresAt.
C12_NoEarlyExpiry ==
    \A i \in RequestIds :
        (Rec(i) # None /\ The(Rec(i)).status = "expired")
        => now >= The(Rec(i)).request.expiresAt

\* a record that expired with nobody deciding on it
C12_Witness ==
    \E i \in RequestIds :
        /\ Rec(i) # None
        /\ The(Rec(i)).status = "expired"
        /\ history[i].wins = << >>

\* C13: a record carries a decision exactly when its status is approved,
\* denied or message; a pending or expired record carries none.  This holds
\* on both backends, also while store calls overlap.
C13_DecisionIffDecided ==
    \A i \in RequestIds :
        Rec(i) # None
        => (The(Rec(i)).decision # None <=> The(Rec(i)).status \in Decided)

\* the durable store holds a decided record with its decision, written while
\* a setExpired call on the same record was in flight
C13_Witness ==
    \E i \in RequestIds, p \in Procs :
        /\ backend = "kv"
        /\ Rec(i) # None
        /\ The(Rec(i)).status \in Decided
        /\ The(Rec(i)).decision # None
        /\ proc[p].pc = "kvExpWrite"
        /\ proc[p].id = i
        /\ proc[p].read # None
        /\ The(proc[p].read).status = "pending"

\* the status that goes with a decision kind
StatusFor(decision) ==
    CASE decision = "approve" -> "approved"
      [] decision = "deny" -> "denied"
      [] decision = "message" -> "message"

\* C14: a record that carries a decision has the status of the decision's
\* kind: approved for approve, denied for deny, message for message.
C14_StatusMatchesKind ==
    \A i \in RequestIds :
        (Rec(i) # None /\ The(Rec(i)).decision # None)
        => /\ The(The(Rec(i)).decision).decision \in Decisions
           /\ The(Rec(i)).status = StatusFor(The(The(Rec(i)).decision).decision)
           /\ history[i].wins # << >>
           /\ The(The(Rec(i)).decision).decision
                  = history[i].wins[Len(history[i].wins)]

\* C15: a message decision made through the callback stores status message
\* and the trimmed, non-empty text, and a poll that holds the record answers
\* status message with that text.
C15_MessageIsStored ==
    /\ \A i \in RequestIds :
           (Rec(i) # None /\ The(Rec(i)).decision # None
               /\ The(The(Rec(i)).decision).decision = "message")
           => /\ The(Rec(i)).status = "message"
              /\ The(The(Rec(i)).decision).message = Some(<<"s">>)
    /\ \A p \in Procs :
           (proc[p].pc = "pollCheck" /\ View(p) # None
               /\ The(View(p)).decision # None
               /\ The(The(View(p)).decision).decision = "message")
           => /\ PollAnswer(View(p), now).status = "message"
              /\ \A d \in PollAnswer(View(p), now).info : d.message = Some(<<"s">>)

\* a text field that is absent, empty or made of spaces only
Blank(field) == field = None \/ \A n \in DOMAIN The(field) : The(field)[n] = " "

\* C16: a message event whose text (the form field, else the input field) is
\* blank changes nothing: no store call is made, no card is rewritten, the
\* record stays as it is, and the answer is the validation notice.  So every
\* message callback that is in flight carries a text that is not blank.
C16_BlankMessageRefused ==
    [][/\ \A p \in Procs :
             (proc[p].pc = "idle" /\ proc'[p] # proc[p])
             => \A i \in RequestIds, o \in Operators, fv \in Fields, iv \in Fields :
                    (Blank(UserMessage(fv, iv))
                        /\ CallbackGet(p, "none", i, "message", o, fv, iv))
                    => UNCHANGED vars
       /\ \A p \in Procs :
             (proc'[p].kind = "callback" /\ proc'[p].decision = "message")
             => ~Blank(proc'[p].message)
       /\ CallbackReject("message") = Toast("Please enter a message")
       /\ CallbackReject("message").toast # SuccessToast("message")]_vars

\* a request is pending, its card shows the buttons, and a slot is free to
\* take the event; a message callback with a proper text is under way
C16_Witness ==
    \E i \in RequestIds, p, q \in Procs :
        /\ Rec(i) # None
        /\ The(Rec(i)).status = "pending"
        /\ card[i] = "request"
        /\ proc[p].pc = "idle"
        /\ proc[q].kind = "callback"
        /\ proc[q].decision = "message"
        /\ proc[q].message = Some(<<"s">>)

----------------------------------------------------------------------------
(* The two stores side by side: one clock, and every call made on both.    *)
(* A KVStore call runs from its get to its set without another in between. *)

InitPair ==
    /\ backend = "both"
    /\ now = 0
    /\ store = << >>
    /\ timers = << >>
    /\ kv = << >>
    /\ card = [i \in RequestIds |-> "none"]
    /\ issued = {}
    /\ proc = [p \in Procs |-> IdleProc]
    /\ history = [i \in RequestIds |-> NoHistory]
    /\ notices = 0
    /\ agent = NoAgent
    /\ handshake = None

\* the record MemoryStore holds under an id
MemoryRec(requestId) ==
    IF requestId \in DOMAIN store THEN Some(store[requestId]) ELSE None

\* KVStore.setDecision and KVStore.setExpired run in one piece
KVSetDecisionCall(requestId, decision, respondedBy) ==
    KVSetDecision(kv, requestId, KVGet(kv, requestId), decision, respondedBy, now)

KVSetExpiredCall(requestId) ==
    KVSetExpired(kv, requestId, KVGet(kv, requestId), now)

\* store.set(id, data) with a record made at this instant; a record already
\* under the id is replaced
PairSet(requestId, timeout) ==
    /\ LET data == NewStoredRequest(PlainBody, requestId, now, timeout,
                                    MessageIdOf(requestId))
           r == MemorySet(store, timers, requestId, data, now)
       IN  /\ store' = r.store
           /\ timers' = r.timers
           /\ kv' = KVSet(kv, requestId, data, now)
    /\ issued' = issued \cup {requestId}
    /\ UNCHANGED <<handshake, notices, agent, backend, now, card, proc, history>>

PairGet(requestId) ==
    /\ store' = MemoryGet(store, requestId, now).store
    /\ UNCHANGED <<handshake, notices, agent, backend, now, timers, kv, card, issued, proc, history>>

PairSetDecision(requestId, decision, respondedBy, message) ==
    /\ LET r == MemorySetDecision(store, timers, requestId, decision,
                                  respondedBy, message, now)
       IN  store' = r.store /\ timers' = r.timers
    /\ kv' = KVSetDecisionCall(requestId, decision, respondedBy).kv
    /\ UNCHANGED <<handshake, notices, agent, backend, now, card, issued, proc, history>>

PairSetExpired(requestId) ==
    /\ LET r == MemorySetExpired(store, timers, requestId)
       IN  store' = r.store /\ timers' = r.timers
    /\ kv' = KVSetExpiredCall(requestId).kv
    /\ UNCHANGED <<handshake, notices, agent, backend, now, card, issued, proc, history>>

PairDelete(requestId) ==
    /\ LET r == MemoryDelete(store, timers, requestId)
       IN  store' = r.store /\ timers' = r.timers
    /\ kv' = KVDelete(kv, requestId)
    /\ UNCHANGED <<handshake, notices, agent, backend, now, card, issued, proc, history>>

NextStorePair ==
    \/ \E i \in RequestIds, d \in Timeouts : PairSet(i, d)
    \/ \E i \in RequestIds : PairGet(i)
    \/ \E i \in RequestIds, d \in Decisions, o \in Operators :
           PairSetDecision(i, d, Some(o), IF d = "message" THEN Some(<<"s">>) ELSE None)
    \/ \E i \in RequestIds : PairSetExpired(i)
    \/ \E i \in RequestIds : PairDelete(i)
    \/ Environment

SpecStorePair == InitPair /\ [][NextStorePair]_vars

\* what a caller can tell about a record: whether there is one, its status
\* and its decision
Seen(rec) ==
    IF rec = None THEN None
    ELSE Some([status |-> The(rec).status, decision |-> The(rec).decision])

\* C17: MemoryStore and KVStore, given the same calls at the same instants,
\* cannot be told apart: they hold the same status and decision under every
\* id, and whatever call comes next, get, setDecision or setExpired, returns
\* the same from both.
C17_BackendsAgree ==
    \A i \in RequestIds :
        /\ Seen(MemoryRec(i)) = Seen(KVGet(kv, i))
        /\ Seen(MemoryGet(store, i, now).ret) = Seen(KVGet(kv, i))
        /\ \A d \in Decisions, o \in Operators, m \in Messages :
               MemorySetDecision(store, timers, i, d, Some(o), m, now).ret
                   = KVSetDecisionCall(i, d, Some(o)).ret
        /\ MemorySetExpired(store, timers, i).ret = KVSetExpiredCall(i).ret

----------------------------------------------------------------------------
(* Properties of the handlers, continued *)

\* C18: the request part of a record, its deadline included, is the one it
\* was created with: no step of a handler, of a store call or of the timer
\* changes it.
C18_RequestIsFrozen ==
    [][\A i \in RequestIds :
          /\ (Rec(i) # None /\ Rec(i)' # None)
             => The(Rec(i)').request = The(Rec(i)).request
          /\ (Rec(i)' # None /\ history[i].expiresAt # None)
             => The(Rec(i)').request.expiresAt = The(history[i].expiresAt)]_vars

\* a record that has left pending and has its first deadline
C18_Witness ==
    \E i \in RequestIds :
        /\ Rec(i) # None
        /\ The(Rec(i)).status \in Terminal
        /\ history[i].expiresAt = Some(The(Rec(i)).request.expiresAt)
        /\ now > The(Rec(i)).request.expiresAt

\* C19: the end of a callback, whether its card update went through or
\* threw, leaves the record as the store call left it; and a poll that holds
\* a settled record answers with that record's status.
C19_NoRollback ==
    [][/\ \A p \in Procs, i \in RequestIds :
             (proc[p].pc \in {"cbDecided", "cbExpired"} /\ proc[p].id = i
                 /\ proc'[p].pc = "idle")
             => Rec(i)' = Rec(i)
       /\ \A p \in Procs :
             (proc[p].pc = "pollCheck" /\ View(p) # None
                 /\ The(View(p)).status \in Terminal)
             => PollAnswer(View(p), now).status = The(View(p)).status]_vars

\* a decision is stored, its callback has ended, and the card still shows
\* the request: the update failed and the decision stayed
C19_Witness ==
    \E i \in RequestIds :
        /\ Quiet
        /\ Rec(i) # None
        /\ The(Rec(i)).status \in Decided
        /\ history[i].wins # << >>
        /\ history[i].decisionCards = 0
        /\ card[i] = "request"

\* C20: every step that takes a record with a notification handle from
\* pending to a settled status is made by a handler that goes on to update
\* the card: after the step, a callback on that request is at its card update.
C20_CardFollowsTransition ==
    [][\A i \in RequestIds :
          (/\ Rec(i) # None
           /\ The(Rec(i)).status = "pending"
           /\ The(Rec(i)).larkMessageId # None
           /\ Rec(i)' # None
           /\ The(Rec(i)').status \in Terminal)
          => \E p \in Procs :
                 /\ proc'[p].id = i
                 /\ proc'[p].pc \in {"cbDecided", "cbExpired"}
                 /\ proc'[p].ok]_vars

----------------------------------------------------------------------------
(* Properties of the endpoints' checks *)

\* the Authorization headers that do not carry the configured key
WrongAuthorizations(apiKey) ==
    {a \in Authorizations :
        a = None \/ The(a) # [scheme |-> "Bearer ", token |-> The(apiKey)]}

\* C21: with a key configured, a create, poll or auxiliary send whose
\* Authorization header is missing or wrong, and with a verification token
\* configured, an action event whose token is wrong, is answered 401 (405 for
\* a wrong method) and changes nothing: no record, no timer, no card, no
\* auxiliary card, no invocation left in flight.
C21_UnauthorizedTouchesNothing ==
    [][(vars' # vars /\ Quiet) =>
       \A k \in ApiKeys \ {None}, a \in Authorizations, m \in Methods :
          a \in WrongAuthorizations(k)
          => /\ \A p \in Procs, i \in RequestIds, d \in Timeouts, ok \in BOOLEAN :
                   Notify(p, m, k, a, PlainBody, i, d, ok) => UNCHANGED vars
             /\ \A p \in Procs, id \in Ids :
                   Poll(p, m, k, a, id) => UNCHANGED vars
             /\ \A c \in BOOLEAN, ok \in BOOLEAN :
                   Message(m, k, a, c, ok) => UNCHANGED vars
             /\ \A p \in Procs, e \in EventTokens, id \in Ids,
                   d \in EventDecisions, o \in Operators, fv \in Fields :
                   (e # The(Some("tok")) /\ Callback(p, m, Some("tok"), e, id, d, o, fv))
                   => UNCHANGED vars
             /\ NotifyFault("POST", k, a, PlainBody) = "auth"
             /\ NotifyReject("auth").code = 401
             /\ PollFault("GET", k, a, Some("r1")) = "auth"
             /\ PollReject("auth").code = 401
             /\ MessageAnswer(MessageFault("POST", k, a, TRUE), TRUE).code = 401
             /\ CallbackReject(CallbackFault("POST", Some("tok"), "bad",
                                   Some("r1"), Some("approve"))).code = 401]_vars

\* a request is pending and no call is in flight: each of the four calls can
\* be made with a wrong credential
C21_Witness ==
    /\ \E i \in RequestIds : Rec(i) # None /\ The(Rec(i)).status = "pending"
    /\ notices < MaxNotices
    /\ Quiet
    /\ ENABLED Notify(1, "POST", Some("key"), Some([scheme |-> "Bearer ", token |-> "bad"]),
                      PlainBody, "r1", ShortTimeout, TRUE)
    /\ ENABLED Poll(1, "GET", Some("key"), None, Some("r1"))
    /\ ENABLED Message("POST", Some("key"), Some([scheme |-> "Basic ", token |-> "key"]),
                       TRUE, TRUE)
    /\ ENABLED Callback(1, "POST", Some("tok"), "bad", Some("r1"), Some("approve"),
                        "ou_approver", None)

\* C22: a create call that passes the method and key checks and whose body
\* lacks tool or workingDirectory is answered 400, and nothing else happens:
\* no request id is generated, no card is sent, no record is stored.
C22_MissingFieldsRejected ==
    [][(vars' # vars /\ Quiet) =>
       \A b \in Bodies :
          (b.tool = None \/ b.workingDirectory = None)
          => /\ \A p \in Procs, i \in RequestIds, d \in Timeouts, ok \in BOOLEAN :
                   ~Notify(p, "POST", None, None, b, i, d, ok)
             /\ \A i \in RequestIds, ok \in BOOLEAN :
                   NotifyAnswer(NotifyFault("POST", None, None, b), i, ok) = Reply(400)]_vars

\* the service holds a request and no call is in flight: a body without its
\* workingDirectory can be posted
C22_Witness ==
    /\ \E i \in RequestIds : Rec(i) # None /\ The(Rec(i)).request.riskLevel = "critical"
    /\ Quiet
    /\ ENABLED Notify(1, "POST", None, None,
                      [tool |-> Some("Bash"), command |-> Some(<<"l", "s">>),
                       workingDirectory |-> None, riskLevel |-> None,
                       description |-> None, args |-> None, project |-> None],
                      "r1", ShortTimeout, TRUE)

\* C23: when sendPermissionRequest throws during a create call, the call is
\* answered 500 without a request id, and the request it was building is
\* never stored: an id that was generated and has no card has no record.
C23_FailedSendStoresNothing ==
    \A i \in RequestIds :
        /\ NotifyAnswer("none", i, FALSE) = ApiReply(500, None)
        /\ (i \in issued /\ card[i] = "none")
           => /\ Rec(i) = None
              /\ i \notin DOMAIN store /\ i \notin DOMAIN kv
              /\ history[i].expiresAt = None
              /\ \A p \in Procs : proc[p].kind # "notify"

\* the send of r1 failed some time ago, and polls have looked for it since
C23_Witness ==
    /\ "r1" \in issued
    /\ card["r1"] = "none"
    /\ now > 0
    /\ \E p \in Procs : proc[p].pc = "pollCheck" /\ proc[p].id = "r1"

\* C24: an action event whose decision kind is none of approve, deny and
\* message changes nothing, whatever the request it names and the state that
\* request is in: no store call, no invocation going on, no card update.  When
\* it passes the token check and names a request, it is answered 400.
C24_UnknownKindRejected ==
    [][(vars' # vars /\ Quiet) =>
       \A d \in EventDecisions :
          (d # None /\ The(d) \notin {"approve", "deny", "message"})
          => /\ \A p \in Procs, m \in Methods, v \in VerificationTokens,
                   e \in EventTokens, id \in Ids, o \in Operators, fv \in Fields :
                   ~Callback(p, m, v, e, id, d, o, fv)
             /\ \A v \in VerificationTokens, i \in RequestIds :
                   CallbackReject(CallbackFault("POST", v, "tok", Some(i), d))
                       = Reply(400)]_vars

\* the request has been approved and its card updated; an event of an
\* unknown kind can be delivered for it
C24_Witness ==
    /\ Rec("r1") # None
    /\ The(Rec("r1")).status = "approved"
    /\ card["r1"] = "approve"
    /\ ENABLED Callback(1, "POST", Some("tok"), "tok", Some("r1"), Some("always"),
                        "ou_approver", None)

\* an acknowledgment: status 200 and a toast
IsToast(reply) == reply.code = 200 /\ reply.toast # "none"

\* C25: an action event that passed the token check, names a request and has
\* a valid kind is answered 200 with a toast whatever comes of it: request
\* not found, already decided or expired, expired now, setDecision refused,
\* success, the store out of reach, or the card update failing.
C25_AlwaysAcknowledged ==
    /\ IsToast(CallbackReject("store"))
    /\ IsToast(CallbackReject("message"))
    /\ \A p \in Procs :
          /\ (proc[p].pc = "cbCheck"
                 /\ CallbackBranch(View(p), now) \in {"not_found", "already"})
             => IsToast(CallbackAnswer(View(p)))
          /\ proc[p].pc = "cbExpired"
             => \A u \in BOOLEAN : IsToast(ExpiredAnswer(p, u))
          /\ proc[p].pc = "cbDecided"
             => \A u \in BOOLEAN : IsToast(DecidedAnswer(p, u))

\* setDecision has gone through for a request with a card, and the card
\* update is about to be tried
C25_Witness ==
    \E p \in Procs :
        /\ proc[p].pc = "cbDecided"
        /\ proc[p].ok
        /\ HasCard(p)
        /\ DecidedAnswer(p, FALSE) = Toast("Failed to process action")

\* C26: the riskLevel of every stored request is determineRiskLevel of its
\* tool and command.
C26_RiskLevelIsClassification ==
    \A i \in RequestIds :
        Rec(i) # None
        => LET request == The(Rec(i)).request
           IN  request.riskLevel = DetermineRiskLevel(request.tool, request.command)

\* the tool and command of the requests in the store
Classified ==
    {[tool |-> The(Rec(i)).request.tool, command |-> The(Rec(i)).request.command] :
        i \in {j \in RequestIds : Rec(j) # None}}

\* C27: for the tool and command of every request created, determineRiskLevel
\* is critical as soon as any critical pattern matches the command, whatever
\* else matches; it is high as soon as any high pattern matches and no
\* critical one does, whatever medium pattern matches; and it is medium when
\* a medium pattern matches and none of the others does.
C27_CascadeOrder ==
    \A r \in Classified :
        LET cmdStr == CmdStr(r.command)
            level == DetermineRiskLevel(r.tool, r.command)
            critical == \E j \in 1..Len(DangerousPatterns) :
                            Test(DangerousPatterns[j], cmdStr)
            high == \E j \in 1..Len(HighRiskPatterns) :
                        Test(HighRiskPatterns[j], cmdStr)
            medium == \E j \in 1..Len(MediumRiskPatterns) :
                          Test(MediumRiskPatterns[j], cmdStr)
        IN  /\ \A j \in 1..Len(DangerousPatterns) :
                  Test(DangerousPatterns[j], cmdStr) => level = "critical"
            /\ \A j \in 1..Len(HighRiskPatterns) :
                  (Test(HighRiskPatterns[j], cmdStr) /\ ~critical) => level = "high"
            /\ \A j \in 1..Len(MediumRiskPatterns) :
                  (Test(MediumRiskPatterns[j], cmdStr) /\ ~critical /\ ~high)
                  => level = "medium"

\* requests whose command matches a pattern of two tiers have been created:
\* one classified critical that also matches a high pattern, one classified
\* high that also matches a medium pattern
C27_Witness ==
    \E r \in Classified :
        /\ r.command # None
        /\ AnyMatch(HighRiskPatterns, The(r.command))
        /\ AnyMatch(MediumRiskPatterns, The(r.command))
        /\ ~AnyMatch(DangerousPatterns, The(r.command))
        /\ \E i \in RequestIds :
              Rec(i) # None /\ The(Rec(i)).request.riskLevel = "high"

\* C28: for the tool and command of every request created, when no pattern
\* of any tier matches the command (or there is no command),
\* determineRiskLevel is medium for the tool Bash and low for any other tool;
\* for the tool Bash it is never low.
C28_ShellFloor ==
    \A r \in Classified :
        LET cmdStr == CmdStr(r.command)
            level == DetermineRiskLevel(r.tool, r.command)
        IN  /\ (~AnyMatch(DangerousPatterns, cmdStr)
                   /\ ~AnyMatch(HighRiskPatterns, cmdStr)
                   /\ ~AnyMatch(MediumRiskPatterns, cmdStr))
               => level = IF r.tool = "Bash" THEN "medium" ELSE "low"
            /\ r.tool = "Bash" => level # "low"

\* a Bash request without a command has been created, and classified medium
C28_Witness ==
    \E i \in RequestIds :
        /\ Rec(i) # None
        /\ The(Rec(i)).request.tool = "Bash"
        /\ The(Rec(i)).request.command = None
        /\ The(Rec(i)).request.riskLevel = "medium"

\* C29: with the volatile store and an agent that keeps polling, every
\* request that has been stored is sooner or later reported with a terminal
\* status by GET /api/status, whether or not its timer ever fires.
C29_PollingReachesTerminal ==
    \A i \in RequestIds :
        (history[i].expiresAt # None) ~> (history[i].polled # {})

\* a poll has reported the request expired while the timer that
\* MemoryStore.set armed for it is still waiting
C29_Witness ==
    \E i \in RequestIds :
        /\ backend = "memory"
        /\ history[i].polled = {"expired"}
        /\ i \in DOMAIN timers
        /\ now >= timers[i]

\* C30: the hook script leaves its polling loop once the status handler has
\* reported a terminal status for its request: while it is in the loop, no
\* terminal status has been reported to it.
C30_LoopEndsOnTerminal ==
    \A i \in RequestIds :
        (agent.pc = "loop" /\ agent.requestId = Some(i))
        => history[i].polled = {}

\* C31: a handshake sent by POST is answered 401 exactly when a verification
\* token is configured and the event's token differs from it, and otherwise
\* with status 200 and the challenge it carried, unchanged; so with no token
\* configured every handshake is echoed.
C31_HandshakeEchoesChallenge ==
    \A h \in handshake :
        h.method = "POST"
        => LET differs == /\ h.verificationToken # None
                          /\ h.body.token # h.verificationToken
           IN  /\ differs => h.answer = [code |-> 401]
               /\ ~differs => h.answer = [code |-> 200,
                                          challenge |-> h.body.challenge]

\* a handshake with the wrong token was turned away while requests were
\* being decided
C31_Witness ==
    /\ \E h \in handshake :
          /\ h.method = "POST"
          /\ h.verificationToken = Some("tok")
          /\ h.body = [token |-> Some("bad"), challenge |-> Some("c1")]
          /\ h.answer.code = 401
    /\ \E i \in RequestIds : history[i].wins # << >>

----------------------------------------------------------------------------
(* Properties of expiry, retention and creation *)

StatusIn(requestId, statuses) ==
    Rec(requestId) # None /\ The(Rec(requestId)).status \in statuses

\* C32: when a setExpired call and a setDecision call overlap on one pending
\* record, their reads and writes interleaved in any order, at most one of
\* them returns true and the status that call wrote stays: setExpired does
\* not return true on a record a setDecision has decided, nor setDecision on
\* a record a setExpired has expired.
C32_ExpiryAndDecisionExclude ==
    [][/\ \A p \in Procs :
             /\ ( /\ proc[p].pc = "kvExpWrite"
                  /\ KVSetExpired(kv, proc[p].id, proc[p].read, now).ret
                  /\ SetExpiredWrite(p) )
                => ~StatusIn(proc[p].id, Decided)
             /\ ( /\ proc[p].pc = "kvDecWrite"
                  /\ KVSetDecision(kv, proc[p].id, proc[p].read, proc[p].decision,
                                   proc[p].respondedBy, now).ret
                  /\ SetDecisionWrite(p) )
                => ~StatusIn(proc[p].id, {"expired"})
       /\ \A p \in Procs, i \in RequestIds :
             /\ ( /\ backend = "memory"
                  /\ MemorySetExpired(store, timers, i).ret
                  /\ DirectSetExpired(p, i) )
                => ~StatusIn(i, Decided)
             /\ \A d \in Decisions, o \in Operators, m \in Messages :
                  ( /\ backend = "memory"
                    /\ MemorySetDecision(store, timers, i, d, Some(o), m, now).ret
                    /\ DirectSetDecision(p, i, d, Some(o), m) )
                  => ~StatusIn(i, {"expired"})]_vars

\* C33: on the durable backend a record that setDecision has decided stays
\* readable until at least 60 seconds past the request's expiresAt, whenever
\* between creation and expiresAt the decision was made.
C33_DecidedKeptPastExpiry ==
    \A i \in DOMAIN kv :
        kv[i].value.status \in Decided
        => kv[i].expireAt >= kv[i].value.request.expiresAt
                             + DecisionTtlSeconds * MsPerSecond

\* C34: the expiry KVStore.set gives a record is a whole number of seconds,
\* at least one second and at least the time that remained until expiresAt
\* when the record was written.
C34_TtlCoversRemaining ==
    \A i \in DOMAIN kv :
        kv[i].value.status = "pending"
        => LET ex == kv[i].expireAt - kv[i].value.createdAt
               remaining == kv[i].value.request.expiresAt - kv[i].value.createdAt
           IN  /\ ex % MsPerSecond = 0
               /\ ex >= MinTtlSeconds * MsPerSecond
               /\ ex >= remaining

\* a record with a second and a half to live was written with an expiry of
\* two seconds
C34_Witness ==
    \E i \in DOMAIN kv :
        /\ kv[i].value.status = "pending"
        /\ kv[i].value.request.expiresAt - kv[i].value.createdAt = 3 * ShortTimeout
        /\ kv[i].expireAt - kv[i].value.createdAt = 2 * MsPerSecond

\* C35: in MemoryStore a record set with expiresAt in the future and left
\* alone comes to have status expired, by the timer that set armed, which
\* fires no earlier than expiresAt; the timer's callback changes the status
\* of a record that is still pending and nothing else, and leaves the store
\* as it is when the record is terminal or gone.
C35_TimerExpiresPending ==
    /\ [][\A i \in RequestIds :
             TimerFire(i)
             => IF i \in DOMAIN store /\ store[i].status = "pending"
                THEN /\ now >= store[i].request.expiresAt
                     /\ store' = Put(store, i, [store[i] EXCEPT !.status = "expired"])
                ELSE store' = store]_vars
    /\ \A i \in RequestIds :
          ( /\ i \in DOMAIN store
            /\ store[i].status = "pending"
            /\ store[i].request.expiresAt > store[i].createdAt )
          ~> (i \notin DOMAIN store \/ store[i].status # "pending")

\* the timer of a record with a future deadline has fired, and the record is
\* expired
C35_Witness ==
    \E i \in DOMAIN store :
        /\ store[i].request.expiresAt > store[i].createdAt
        /\ store[i].status = "expired"
        /\ i \notin DOMAIN timers

\* C36: once the callback handler has answered a decision with its success
\* toast, the stored record has a decided status for as long as it is
\* stored: no poll or callback that is on its expiry path writes expired
\* over the decision.
C36_ToastedDecisionStays ==
    \A i \in RequestIds :
        (history[i].decisionCards > 0 /\ Rec(i) # None)
        => The(Rec(i)).status \in Decided

\* C37: while a create call has had the card sent and is on its way to its
\* successful answer, an action callback for that request finds the record:
\* it is not answered 'Request not found or already processed'.
C37_CardedRequestIsFound ==
    \A p \in Procs, q \in Procs :
        ( /\ proc[p].pc = "notifyStore"
          /\ card[proc[p].id] = "request"
          /\ proc[q].pc = "cbCheck"
          /\ proc[q].id = proc[p].id )
        => CallbackBranch(View(q), now) # "not_found"

\* what a status response says of a record: its status, and the kind,
\* message and respondedAt of its decision
Reported(record) ==
    StatusReply(record.status,
                {[decision |-> d.decision, respondedAt |-> d.respondedAt,
                  message |-> d.message] : d \in record.decision})

\* C38: a poll on an id without a record, on a terminal record or on a
\* pending record before its deadline writes nothing to the store, in its
\* store.get and in what follows it, and answers not_found or exactly the
\* status, decision kind, message and respondedAt of the record it read.
C38_PollReadsOnly ==
    [][\A p \in Procs :
          /\ \A i \in RequestIds :
                ( /\ proc[p].pc = "idle"
                  /\ ~(StatusIn(i, {"pending"})
                        /\ now >= The(Rec(i)).request.expiresAt)
                  /\ PollGet(p, "none", i) )
                => /\ store' = store /\ timers' = timers /\ kv' = kv
                   /\ proc'[p].stored = Rec(i)
          /\ ( /\ proc[p].pc = "pollCheck"
               /\ ~PollExpires(View(p), now)
               /\ PollCheck(p) )
             => /\ store' = store /\ timers' = timers /\ kv' = kv
                /\ PollAnswer(View(p), now) =
                      IF View(p) = None THEN StatusReply("not_found", None)
                      ELSE Reported(The(View(p)))]_vars

\* a poll has reported a request as approved, and the record is as the
\* decision left it
C38_Witness ==
    \E i \in RequestIds :
        /\ "approved" \in history[i].polled
        /\ StatusIn(i, {"approved"})
        /\ The(Rec(i)).decision # None
        /\ Quiet

\* C39: every created request has expiresAt = timestamp + timeout with
\* timeout > 0, so its deadline is later than its creation; the timeout is
\* the value of LARK_TIMEOUT, or 300000 ms when that is unset, not a number
\* or zero.
C39_DeadlineAfterCreation ==
    \A i \in RequestIds :
        Rec(i) # None
        => LET request == The(Rec(i)).request
           IN  /\ request.expiresAt > request.timestamp
               /\ request.expiresAt - request.timestamp
                     \in {DEFAULT_TIMEOUT} \cup
                         {The(ParseInt(The(e))) :
                             e \in {x \in LarkTimeouts \ {None} : ParseInt(The(x)) # None}}

\* C40: the PermissionRequest a create call stores has the tool, command,
\* description, args and workingDirectory of the body it was posted, and as
\* project the body's project or, without one, the last segment of the
\* working directory.
C40_RequestCarriesBody ==
    [][(vars' # vars /\ Quiet) =>
       \A p \in Procs, b \in DescribedBodies, i \in RequestIds, e \in LarkTimeouts :
          Notify(p, "POST", None, None, b, i, ConfiguredTimeout(e), TRUE)
          => LET request == The(proc'[p].stored).request
             IN  /\ request.tool = The(b.tool)
                 /\ request.command = b.command
                 /\ request.args = b.args
                 /\ request.workingDirectory = The(b.workingDirectory)
                 /\ request.project = IF b.project # None THEN The(b.project)
                                      ELSE LastSegment(The(b.workingDirectory))
                 /\ request.description = b.description]_vars

====
